---- MODULE Spec2Model ----
(***************************************************************************)
(* Flight-Tracker: the geographic corridor filter.                         *)
(*                                                                         *)
(* filterLandmarksInCorridor (map.js) keeps the landmarks that lie inside  *)
(* a bounding box around the route and within a tier-dependent distance of *)
(* the multi-leg great-circle route (utils/geo.js).                        *)
(*                                                                         *)
(* Numbers.  The code computes in IEEE doubles.  The model computes in     *)
(* fixed point:                                                            *)
(*   - coordinates are integers in units of 1/U degree,                    *)
(*   - angles and trigonometric values are integers scaled by F (an angle  *)
(*     is in micro-radians, sin and cos are in millionths),                *)
(*   - distances are integers in metres,                                   *)
(*   - a bounding box is in micro-degrees.                                 *)
(* Every operator follows the arithmetic of the source line by line; the   *)
(* library functions Math.sin, Math.cos, Math.sqrt, Math.atan2, Math.asin  *)
(* are series evaluations exact to about two units of the last place.      *)
(***************************************************************************)
EXTENDS Integers, Sequences, FiniteSets, TLC

----------------------------------------------------------------------------
(* Fixed-point arithmetic.  Every intermediate value stays below 2^31.     *)
(* The locals of a source function are the parameters of the operator that *)
(* continues it.                                                           *)

F == 1000 * 1000

Abs(a) == IF a < 0 THEN -a ELSE a

Sgn(a) == IF a < 0 THEN -1 ELSE IF a > 0 THEN 1 ELSE 0

Min(a, b) == IF a <= b THEN a ELSE b

Max(a, b) == IF a >= b THEN a ELSE b

\* floor(a*b / F) from the three-digit limbs a = a1*1000 + a0, b = b1*1000 + b0
MulHiOf(a1, a0, b1, b0) ==
    a1 * b1 + (a1 * b0 + a0 * b1 + (a0 * b0) \div 1000) \div 1000

\* floor(a*b / F) for a, b >= 0
MulHi(a, b) == MulHiOf(a \div 1000, a % 1000, b \div 1000, b % 1000)

\* (a*b) mod F from the limbs
MulLoOf(a1, a0, b1, b0) ==
    ((a1 * b0 + a0 * b1 + (a0 * b0) \div 1000) % 1000) * 1000 + ((a0 * b0) % 1000)

\* (a*b) mod F for a, b >= 0
MulLo(a, b) == MulLoOf(a \div 1000, a % 1000, b \div 1000, b % 1000)

\* a*b / F rounded to nearest, from the limbs
MulNOf(a1, a0, b1, b0) ==
    a1 * b1 + (a1 * b0 + a0 * b1 + (a0 * b0 + 500000) \div 1000) \div 1000

\* a*b / F rounded to nearest, for a, b >= 0
MulN(a, b) == MulNOf(a \div 1000, a % 1000, b \div 1000, b % 1000)

\* the product of two scaled numbers
Mul(a, b) == Sgn(a) * Sgn(b) * MulN(Abs(a), Abs(b))

\* the two further digits groups of a long division with remainder r0
DivRest(r0, b) ==
    ((r0 * 1000) \div b) * 1000 + (((r0 * 1000) % b) * 1000) \div b

\* floor(a*F / b) for a >= 0, b > 0, by long division
DivN(a, b) == (a \div b) * F + DivRest(a % b, b)

----------------------------------------------------------------------------
(* Math.PI and the library functions.                                      *)

PI == 3141592

HALF_PI == PI \div 2

RECURSIVE Reduce(_)
\* an angle brought into [-PI, PI] (the argument reduction of sin and cos)
Reduce(x) ==
    IF x > PI THEN Reduce(x - 2 * PI)
    ELSE IF x < -PI THEN Reduce(x + 2 * PI)
    ELSE x

\* x - x^3/3! + x^5/5! - x^7/7! + x^9/9!, with x2 = x*x
SinSeries(x, x2) ==
    Mul(x, F - Mul(x2, F - Mul(x2, F - Mul(x2, F - x2 \div 72) \div 42) \div 20) \div 6)

\* sin on [0, PI/4]
SinQ(x) == SinSeries(x, Mul(x, x))

\* 1 - x^2/2! + x^4/4! - x^6/6! + x^8/8!, with x2 = x*x
CosSeries(x2) ==
    F - Mul(x2, F - Mul(x2, F - Mul(x2, F - x2 \div 56) \div 30) \div 12) \div 2

\* cos on [0, PI/4]
CosQ(x) == CosSeries(Mul(x, x))

\* sin on [0, PI/2]
SinH(x) == IF 2 * x <= HALF_PI THEN SinQ(x) ELSE CosQ(HALF_PI - x)

\* sin on [-PI, PI]
SinR(r) == Sgn(r) * (IF Abs(r) <= HALF_PI THEN SinH(Abs(r)) ELSE SinH(PI - Abs(r)))

\* Math.sin
Sin(x) == SinR(Reduce(x))

\* cos on [0, PI]
CosA(a) == IF a <= HALF_PI THEN SinH(HALF_PI - a) ELSE -SinH(a - HALF_PI)

\* Math.cos
Cos(x) == CosA(Abs(Reduce(x)))

\* s*s <= a*F, exactly
SqLe(s, a) == MulHi(s, s) < a \/ (MulHi(s, s) = a /\ MulLo(s, s) = 0)

RECURSIVE SqrtIn(_, _, _)
RECURSIVE SqrtMid(_, _, _, _)
\* one step of the bisection, with mid the middle of lo..hi
SqrtMid(a, lo, hi, mid) ==
    IF SqLe(mid, a) THEN SqrtIn(a, mid, hi) ELSE SqrtIn(a, lo, mid - 1)

\* the largest s in lo..hi with s*s <= a
SqrtIn(a, lo, hi) ==
    IF lo >= hi THEN lo ELSE SqrtMid(a, lo, hi, (lo + hi + 1) \div 2)

\* Math.sqrt on [0, 1]
Sqrt(a) == SqrtIn(a, 0, F)

\* u - u^3/3 + u^5/5 - ... - u^15/15, with u2 = u*u
AtanSeries(u, u2) ==
    Mul(u, F - Mul(u2, F \div 3 - Mul(u2, F \div 5 - Mul(u2, F \div 7
        - Mul(u2, F \div 9 - Mul(u2, F \div 11 - Mul(u2, F \div 13
        - Mul(u2, F \div 15))))))))

\* atan on [-tan(PI/8), tan(PI/8)]
AtanS(u) == AtanSeries(u, Mul(u, u))

\* atan on [0, 1]: atan t = PI/4 - atan((1 - t)/(1 + t))
AtanU(t) ==
    IF t <= 414214 THEN AtanS(t)
    ELSE HALF_PI \div 2 - AtanS(DivN(F - t, F + t))

\* the angle in [0, PI/2] whose tangent is a/b, for a, b >= 0 not both 0
AtanQ(a, b) ==
    IF a <= b THEN AtanU(DivN(a, b)) ELSE HALF_PI - AtanU(DivN(b, a))

\* the angle of (a, b) from the angle q of (|a|, |b|)
AtanSigned(a, b, q) ==
    IF b >= 0 THEN Sgn(a) * q
    ELSE IF a >= 0 THEN PI - q ELSE -(PI - q)

\* Math.atan2(a, b), with Math.atan2(0, 0) = 0
Atan2(a, b) ==
    IF a = 0 /\ b = 0 THEN 0 ELSE AtanSigned(a, b, AtanQ(Abs(a), Abs(b)))

\* Math.asin on [-1, 1]
Asin(s) == Atan2(s, Sqrt(F - MulHi(Abs(s), Abs(s))))

----------------------------------------------------------------------------
(* utils/geo.js.  A point is [lat, lon] in units of 1/U degree.            *)

U == 100

R == 6371

\* the value that stands for the double +Infinity: above every distance
Infinity == 2000 * F

\* the value that stands for the double NaN: every comparison with it is false
NaN == -Infinity - 1

\* one of the coordinates of the points is NaN: what is computed from them is NaN
AnyNaN(points) == \E p \in points : p.lat = NaN \/ p.lon = NaN

\* Math.min: NaN when one of the two is NaN
MathMin(a, b) == IF a = NaN \/ b = NaN THEN NaN ELSE IF a <= b THEN a ELSE b

\* d * Math.PI / 180 for d >= 0 in units of 1/U degree
ToRadOf(d) == d * (PI \div (180 * U)) + (d * (PI % (180 * U))) \div (180 * U)

\* deg * Math.PI / 180, for deg in units of 1/U degree
toRad(deg) == Sgn(deg) * ToRadOf(Abs(deg))

\* x / 2
Half(x) == Sgn(x) * (Abs(x) \div 2)

\* R * c in metres, for an angle c >= 0
TimesR(c) == (c \div 1000) * R + ((c % 1000) * R) \div 1000

\* m / R: the angle of a distance of m metres
OverR(m) == (m \div R) * 1000 + ((m % R) * 1000) \div R

\* haversineDistance from its local a on: c = 2 * atan2(sqrt(a), sqrt(1 - a))
HaversineOf(a) == TimesR(2 * Atan2(Sqrt(a), Sqrt(F - a)))

\* the local a of haversineDistance, from the two half-angle sines and the cosines
HaversineA(sLat, sLon, cosLat1, cosLat2) ==
    Mul(sLat, sLat) + Mul(Mul(Mul(sLon, sLon), cosLat1), cosLat2)

haversineDistance(point1, point2) ==
    HaversineOf(HaversineA(Sin(Half(toRad(point2.lat - point1.lat))),
                           Sin(Half(toRad(point2.lon - point1.lon))),
                           Cos(toRad(point1.lat)),
                           Cos(toRad(point2.lat))))

\* bearing from its locals lat1, lat2, dLon on: atan2(x, y)
BearingOf(lat1, lat2, dLon) ==
    Atan2(Mul(Sin(dLon), Cos(lat2)),
          Mul(Cos(lat1), Sin(lat2)) - Mul(Mul(Sin(lat1), Cos(lat2)), Cos(dLon)))

bearing(start, end) ==
    BearingOf(toRad(start.lat), toRad(end.lat), toRad(end.lon - start.lon))

RECURSIVE normalizeAngle(_)
normalizeAngle(angle) ==
    IF angle > PI THEN normalizeAngle(angle - 2 * PI)
    ELSE IF angle < -PI THEN normalizeAngle(angle + 2 * PI)
    ELSE angle

\* Math.abs(dxt), from the clamped sine of the cross-track angle
CrossTrackOf(clampedSin) == Abs(Sgn(clampedSin) * TimesR(Abs(Asin(clampedSin))))

\* the cross-track distance, from d13 = distToStart / R and theta13 - theta12
CrossTrack(d13, dTheta) == CrossTrackOf(Max(-F, Min(F, Mul(Sin(d13), Sin(dTheta)))))

\* a variant of pointToSegmentDistance that tests the angle at the end first
SegmentDistanceEndFirst(distToStart, distToEnd, segmentLength, bearingStartEnd, bearingStartPoint, bearingEndStart, bearingEndPoint) ==
    IF segmentLength < 1 THEN distToStart
    ELSE IF Abs(normalizeAngle(bearingEndPoint - bearingEndStart)) > HALF_PI
         THEN distToEnd
    ELSE IF Abs(normalizeAngle(bearingStartPoint - bearingStartEnd)) > HALF_PI
         THEN distToStart
    ELSE CrossTrack(OverR(distToStart), bearingStartPoint - bearingStartEnd)

\* pointToSegmentDistance from its locals on
SegmentDistanceOf(distToStart, distToEnd, segmentLength, bearingStartEnd, bearingStartPoint, bearingEndStart, bearingEndPoint) ==
    IF segmentLength < 1 THEN distToStart
    ELSE IF Abs(normalizeAngle(bearingStartPoint - bearingStartEnd)) > HALF_PI
         THEN distToStart
    ELSE IF Abs(normalizeAngle(bearingEndPoint - bearingEndStart)) > HALF_PI
         THEN distToEnd
    ELSE CrossTrack(OverR(distToStart), bearingStartPoint - bearingStartEnd)

\* pointToSegmentDistance of points whose coordinates are numbers
SegmentDistance(point, start, end) ==
    SegmentDistanceOf(haversineDistance(start, point),
                      haversineDistance(end, point),
                      haversineDistance(start, end),
                      bearing(start, end),
                      bearing(start, point),
                      bearing(end, start),
                      bearing(end, point))

\* with a NaN coordinate every comparison is false and the cross-track distance
\* returned is NaN
pointToSegmentDistance(point, start, end) ==
    IF AnyNaN({point, start, end}) THEN NaN ELSE SegmentDistance(point, start, end)

\* a variant of the origin cutoff that compares with Math.PI: nothing is behind
BehindStartWide(point, start, end) ==
    Abs(normalizeAngle(bearing(start, point) - bearing(start, end))) > PI

\* the origin cutoff of the first segment: diff > Math.PI / 2, with
\* diff = |normalizeAngle(bearingToPoint - startBearing)|
BehindStart(point, start, end) ==
    /\ ~AnyNaN({point, start, end})
    /\ Abs(normalizeAngle(bearing(start, point) - bearing(start, end))) > HALF_PI

\* a variant of the destination cutoff with the comparison turned round
AheadOfEndReversed(point, start, end) ==
    Abs(normalizeAngle(bearing(end, point) - bearing(start, end))) > HALF_PI

\* the destination cutoff of the last segment: diff < Math.PI / 2, with
\* diff = |normalizeAngle(bearingToPoint - endBearing)|
AheadOfEnd(point, start, end) ==
    /\ ~AnyNaN({point, start, end})
    /\ Abs(normalizeAngle(bearing(end, point) - bearing(start, end))) < HALF_PI

\* a variant of the two `continue`s with the origin cutoff taken for every segment
SegmentSkippedBehindAny(point, pathPoints, i) ==
    \/ BehindStart(point, pathPoints[i], pathPoints[i + 1])
    \/ i = Len(pathPoints) - 1 /\ AheadOfEnd(point, pathPoints[i], pathPoints[i + 1])

\* the loop body's two `continue`s for segment i (1-based: pathPoints[i], pathPoints[i+1])
SegmentSkipped(point, pathPoints, i) ==
    \/ i = 1 /\ BehindStart(point, pathPoints[i], pathPoints[i + 1])
    \/ i = Len(pathPoints) - 1 /\ AheadOfEnd(point, pathPoints[i], pathPoints[i + 1])

RECURSIVE PathLoopNoCutoff(_, _, _, _)
\* a variant of the loop without the two `continue`s
PathLoopNoCutoff(point, pathPoints, i, minDistance) ==
    IF i > Len(pathPoints) - 1 THEN minDistance
    ELSE PathLoopNoCutoff(point, pathPoints, i + 1,
                          Min(minDistance,
                              pointToSegmentDistance(point, pathPoints[i], pathPoints[i + 1])))

RECURSIVE PathLoop(_, _, _, _)
\* the for loop from segment i on, with the minimum so far
PathLoop(point, pathPoints, i, minDistance) ==
    IF i > Len(pathPoints) - 1 THEN minDistance
    ELSE IF SegmentSkipped(point, pathPoints, i)
         THEN PathLoop(point, pathPoints, i + 1, minDistance)
         ELSE PathLoop(point, pathPoints, i + 1,
                       MathMin(minDistance,
                               pointToSegmentDistance(point, pathPoints[i], pathPoints[i + 1])))

getDistanceFromPath(point, pathPoints) == PathLoop(point, pathPoints, 1, Infinity)

\* |normalizeAngle(a - b)|, NaN when one of the two bearings is
AngleDiff(a, b) == IF a = NaN \/ b = NaN THEN NaN ELSE Abs(normalizeAngle(a - b))

\* bearing, NaN when a coordinate of the two points is
BearingTo(start, end) == IF AnyNaN({start, end}) THEN NaN ELSE bearing(start, end)

\* normalizeAngle(pathBearing + Math.PI)
ReverseBearing(pathBearing) ==
    IF pathBearing = NaN THEN NaN ELSE normalizeAngle(pathBearing + PI)

\* a > b of two doubles: false when one of them is NaN
Greater(a, b) == a # NaN /\ b # NaN /\ a > b

\* a variant of isWithinPathExtent that compares the bearing from the destination
\* with the bearing of the path, not with its reverse
WithinExtentForward(point, origin, destination, pathBearing) ==
    /\ ~Greater(AngleDiff(BearingTo(origin, point), pathBearing), HALF_PI)
    /\ ~Greater(AngleDiff(BearingTo(destination, point), pathBearing), HALF_PI)

\* isWithinPathExtent of a path of two points and more, from pathBearing on: the
\* two `return false` and the `return true`
WithinExtent(point, origin, destination, pathBearing) ==
    /\ ~Greater(AngleDiff(BearingTo(origin, point), pathBearing), HALF_PI)
    /\ ~Greater(AngleDiff(BearingTo(destination, point), ReverseBearing(pathBearing)),
                HALF_PI)

\* the function getDistanceFromPath took the place of
isWithinPathExtent(point, pathPoints) ==
    /\ Len(pathPoints) >= 2
    /\ WithinExtent(point, pathPoints[1], pathPoints[Len(pathPoints)],
                    BearingTo(pathPoints[1], pathPoints[Len(pathPoints)]))

\* the longitude buffer of a box whose mean latitude is a pole: Math.cos(Math.PI / 2)
\* is 6.1e-17 in doubles, so buffer / (111 * cos) is finite and beyond every longitude
LonCap == 1900 * F

\* The box of an empty route: the loop leaves minLat = Infinity and maxLat = -Infinity
\* (the longitudes become NaN), so no point is inside it.
EmptyBox == [minLat |-> Infinity, maxLat |-> -Infinity,
             minLon |-> Infinity, maxLon |-> -Infinity]

\* the latitudes and the longitudes of a route
Lats(routeAirports) == {routeAirports[i].lat : i \in 1..Len(routeAirports)}

Lons(routeAirports) == {routeAirports[i].lon : i \in 1..Len(routeAirports)}

\* Math.min and Math.max over the loop
MinOf(S) == CHOOSE v \in S : \A w \in S : v <= w

MaxOf(S) == CHOOSE v \in S : \A w \in S : v >= w

\* bufferKm / 111, in micro-degrees
LatBuffer(bufferKm) == (bufferKm * F) \div 111

\* a variant of the longitude buffer that takes the cosine for a factor
LonBufferTimesCos(latBuffer, cosMean) == Mul(latBuffer, Max(cosMean, 0))

\* bufferKm / (111 * cos), in micro-degrees, from latBuffer and the cosine of the
\* mean latitude
LonBuffer(latBuffer, cosMean) ==
    IF latBuffer = 0 THEN 0
    ELSE IF cosMean <= 0 THEN LonCap
    ELSE IF latBuffer \div cosMean >= 1900 THEN LonCap
    ELSE DivN(latBuffer, cosMean)

\* the box returned, from the extremes and the buffers
BoxOf(minLat, maxLat, minLon, maxLon, latBuffer, lonBuffer) ==
    [minLat |-> minLat * (F \div U) - latBuffer,
     maxLat |-> maxLat * (F \div U) + latBuffer,
     minLon |-> minLon * (F \div U) - lonBuffer,
     maxLon |-> maxLon * (F \div U) + lonBuffer]

\* createBoundingBox from the extremes on
BoxFrom(minLat, maxLat, minLon, maxLon, latBuffer) ==
    BoxOf(minLat, maxLat, minLon, maxLon, latBuffer,
          LonBuffer(latBuffer, Cos(Half(toRad(minLat + maxLat)))))

\* a variant of the box with the buffers applied inwards
BoxAroundInward(routeAirports, bufferKm) ==
    BoxOf(MinOf(Lats(routeAirports)), MaxOf(Lats(routeAirports)),
          MinOf(Lons(routeAirports)), MaxOf(Lons(routeAirports)),
          -LatBuffer(bufferKm), -LatBuffer(bufferKm))

\* createBoundingBox for a route that is not empty
BoxAround(routeAirports, bufferKm) ==
    BoxFrom(MinOf(Lats(routeAirports)), MaxOf(Lats(routeAirports)),
            MinOf(Lons(routeAirports)), MaxOf(Lons(routeAirports)),
            LatBuffer(bufferKm))

createBoundingBox(routeAirports, bufferKm) ==
    IF Len(routeAirports) = 0 THEN EmptyBox ELSE BoxAround(routeAirports, bufferKm)

\* a variant of the test that takes the edges of the box for outside
isWithinBoundingBoxOpen(point, bounds) ==
    /\ point.lat # NaN /\ point.lon # NaN
    /\ point.lat * (F \div U) > bounds.minLat
    /\ point.lat * (F \div U) < bounds.maxLat
    /\ point.lon * (F \div U) > bounds.minLon
    /\ point.lon * (F \div U) < bounds.maxLon

isWithinBoundingBox(point, bounds) ==
    /\ point.lat # NaN /\ point.lon # NaN
    /\ point.lat * (F \div U) >= bounds.minLat
    /\ point.lat * (F \div U) <= bounds.maxLat
    /\ point.lon * (F \div U) >= bounds.minLon
    /\ point.lon * (F \div U) <= bounds.maxLon

----------------------------------------------------------------------------
(* data/landmarks.js and map.js                                            *)

Tiers == {1, 2, 3}

\* TIER_RADIUS_KM as the source sets it
SourceTierRadius == (1 :> 80) @@ (2 :> 32) @@ (3 :> 8)

\* Math.max(...Object.values(table))
MaxRadiusKm(table) == MaxOf({table[t] : t \in DOMAIN table})

PointOf(a) == [lat |-> a.lat, lon |-> a.lon]

RECURSIVE MapPoints(_)
\* routeAirports.map(a => ({ lat: a.lat, lon: a.lon }))
MapPoints(routeAirports) ==
    IF routeAirports = << >> THEN << >>
    ELSE << PointOf(Head(routeAirports)) >> \o MapPoints(Tail(routeAirports))

\* the predicate of the first filter
InBounds(lm, bounds) == isWithinBoundingBox(PointOf(lm), bounds)

\* a variant of the second filter's predicate that takes the largest radius for
\* every tier
InCorridorAnyTier(lm, pathPoints, table) ==
    getDistanceFromPath(PointOf(lm), pathPoints) <= MaxRadiusKm(table) * 1000

\* a variant of the second filter's predicate with the comparison turned round
InCorridorOutside(lm, pathPoints, table) ==
    /\ lm.tier \in DOMAIN table
    /\ getDistanceFromPath(PointOf(lm), pathPoints) >= table[lm.tier] * 1000

\* the predicate of the second filter: distanceKm <= tierRadiusKm
InCorridor(lm, pathPoints, table) ==
    /\ lm.tier \in DOMAIN table
    /\ getDistanceFromPath(PointOf(lm), pathPoints) <= table[lm.tier] * 1000

RECURSIVE FilterBoundsUntilNaN(_, _)
\* a variant of the first filter that ends at a landmark whose latitude or longitude
\* is NaN
FilterBoundsUntilNaN(list, bounds) ==
    IF list = << >> THEN << >>
    ELSE IF Head(list).lat = NaN \/ Head(list).lon = NaN THEN << >>
    ELSE (IF InBounds(Head(list), bounds) THEN << Head(list) >> ELSE << >>)
         \o FilterBoundsUntilNaN(Tail(list), bounds)

RECURSIVE FilterBounds(_, _)
FilterBounds(list, bounds) ==
    IF list = << >> THEN << >>
    ELSE (IF InBounds(Head(list), bounds) THEN << Head(list) >> ELSE << >>)
         \o FilterBounds(Tail(list), bounds)

RECURSIVE FilterCorridorReversed(_, _, _)
\* a variant of the second filter that collects the landmarks last to first
FilterCorridorReversed(list, pathPoints, table) ==
    IF list = << >> THEN << >>
    ELSE FilterCorridorReversed(Tail(list), pathPoints, table)
         \o (IF InCorridor(Head(list), pathPoints, table) THEN << Head(list) >> ELSE << >>)

RECURSIVE FilterCorridor(_, _, _)
FilterCorridor(list, pathPoints, table) ==
    IF list = << >> THEN << >>
    ELSE (IF InCorridor(Head(list), pathPoints, table) THEN << Head(list) >> ELSE << >>)
         \o FilterCorridor(Tail(list), pathPoints, table)

\* preFiltered = landmarks.filter(box of maxRadiusKm + 50); filtered =
\* preFiltered.filter(distance from pathPoints within the tier's radius)
filterLandmarksInCorridor(lms, routeAirports, table) ==
    IF Len(lms) = 0 \/ Len(routeAirports) = 0 THEN << >>
    ELSE FilterCorridor(
             FilterBounds(lms, createBoundingBox(routeAirports, MaxRadiusKm(table) + 50)),
             MapPoints(routeAirports), table)

----------------------------------------------------------------------------
(* ui.js: calculateFlightDuration.  Speeds are in metres per hour, hours   *)
(* in millionths.                                                          *)

BASE_SPEED_KMH == 900

\* the local bearing, in radians: (Math.atan2(y, x) * 180 / Math.PI + 360) % 360
FlightBearing(origin, dest) ==
    (BearingOf(toRad(origin.lat), toRad(dest.lat), toRad(dest.lon - origin.lon))
     + 2 * PI) % (2 * PI)

\* cosine * 100 km/h, in metres per hour
WindOf(cosine) == Sgn(cosine) * (Abs(cosine) \div 10)

\* a variant of the wind component that takes the cosine of bearing + 90 degrees
WindComponentReversed(flightBearing) == WindOf(Cos(flightBearing + HALF_PI))

\* Math.cos((bearing - 90) * TO_RAD) * 100
WindComponent(flightBearing) == WindOf(Cos(flightBearing - HALF_PI))

\* BASE_SPEED_KMH + windComponent
EffectiveSpeed(flightBearing) == BASE_SPEED_KMH * 1000 + WindComponent(flightBearing)

\* distanceKm / effectiveSpeed + 0.5
calculateFlightDuration(origin, dest, distanceMeters) ==
    DivN(distanceMeters, EffectiveSpeed(FlightBearing(origin, dest))) + F \div 2

----------------------------------------------------------------------------
(* ui.js: the matches of setupAutocomplete.  A string is the sequence of   *)
(* its characters; an airport is [code, city, name, type], its city << >>  *)
(* where it has none.                                                      *)

UpperCase == << "A", "B", "C", "D", "E", "F", "G", "H", "I", "J", "K", "L", "X", "Y" >>

LowerCase == << "a", "b", "c", "d", "e", "f", "g", "h", "i", "j", "k", "l", "x", "y" >>

\* one character of String.prototype.toLowerCase
LowerChar(c) ==
    IF \E n \in DOMAIN UpperCase : UpperCase[n] = c
    THEN LowerCase[CHOOSE n \in DOMAIN UpperCase : UpperCase[n] = c]
    ELSE c

toLowerCase(str) == [n \in 1..Len(str) |-> LowerChar(str[n])]

startsWith(str, query) ==
    Len(query) <= Len(str) /\ SubSeq(str, 1, Len(query)) = query

includes(str, query) ==
    \E n \in 1..(Len(str) - Len(query) + 1) : SubSeq(str, n, n + Len(query) - 1) = query

\* the predicate of airports.filter in the input handler
IsMatch(a, query) ==
    \/ startsWith(toLowerCase(a.code), query)
    \/ a.city # << >> /\ includes(toLowerCase(a.city), query)
    \/ includes(toLowerCase(a.name), query)

\* the order of compareMatches: the code equal to the query first, then the codes
\* that start with it, then the others; in each of these large airports first
CompareKey(a, query) ==
    (IF toLowerCase(a.code) = query THEN 0
     ELSE IF startsWith(toLowerCase(a.code), query) THEN 2
     ELSE 4)
    + (IF a.type = "large_airport" THEN 0 ELSE 1)

RECURSIVE SortFrom(_, _, _)
\* matches.sort(compareMatches), which keeps the order of equals: the matches of
\* key k, then those of the keys after it
SortFrom(matches, query, k) ==
    IF k > 5 THEN << >>
    ELSE SelectSeq(matches, LAMBDA a : CompareKey(a, query) = k)
         \o SortFrom(matches, query, k + 1)

\* matches.slice(0, 10)
Slice10(matches) == SubSeq(matches, 1, Min(Len(matches), 10))

\* currentMatches as the input handler sets it for a query of two characters or more
MatchesOf(airports, query) ==
    Slice10(SortFrom(SelectSeq(airports, LAMBDA a : IsMatch(a, query)), query, 0))

\* what indexing an array past its end gives
Undefined == [undefined |-> TRUE]

\* currentMatches[index], with index counted from 0
ItemAt(matches, index) ==
    IF index + 1 \in DOMAIN matches THEN matches[index + 1] ELSE Undefined

----------------------------------------------------------------------------
(* ui.js and main.js: the stops of the page.  An input element is          *)
(* [value, airport]: its text and its dataset.airport, Undefined where the *)
(* dataset has none.                                                       *)

Null == [null |-> TRUE]

MAX_TOTAL_STOPS == 10

\* `${airport.code} - ${airport.city || airport.name}`
LabelOf(airport) ==
    airport.code \o << " ", "-", " " >>
    \o (IF airport.city # << >> THEN airport.city ELSE airport.name)

RECURSIVE trimStart(_)
trimStart(str) ==
    IF str # << >> /\ Head(str) = " " THEN trimStart(Tail(str)) ELSE str

RECURSIVE trimEnd(_)
trimEnd(str) ==
    IF str # << >> /\ str[Len(str)] = " " THEN trimEnd(SubSeq(str, 1, Len(str) - 1))
    ELSE str

\* String.prototype.trim
trim(str) == trimEnd(trimStart(str))

\* JSON.stringify of an airport: its fields, a NaN written as null
JSONstringify(airport) ==
    [json |-> [airport EXCEPT !.lat = IF @ = NaN THEN Null ELSE @,
                              !.lon = IF @ = NaN THEN Null ELSE @]]

\* JSON.parse of what JSON.stringify wrote
JSONparse(text) == text.json

\* an input element
Input(value, airport) == [value |-> value, airport |-> airport]

\* findBestMatch from its second filter on: null where no airport matches, the
\* first of the sorted matches otherwise
FirstMatch(matches, query) ==
    IF Len(matches) = 0 THEN Null ELSE SortFrom(matches, query, 0)[1]

\* findBestMatch: null for a query of less than two characters
findBestMatch(query, airports) ==
    IF Len(query) < 2 THEN Null
    ELSE FirstMatch(SelectSeq(airports, LAMBDA a : IsMatch(a, toLowerCase(query))),
                    toLowerCase(query))

\* the input as the smart match leaves it
Matched(match) == Input(LabelOf(match), JSONstringify(match))

\* what a toast shows
Toast(message, type) == [message |-> message, type |-> type]

\* the smart match of an input without a stored airport
ResolveMatch(input, match, what) ==
    IF match # Null
    THEN [found |-> match, input |-> Matched(match),
          toasts |-> << Toast(<< "Auto-selected", what >>, "info") >>, unknown |-> FALSE]
    ELSE [found |-> Null, input |-> input,
          toasts |-> << Toast(<< "Unknown", what >>, "error") >>, unknown |-> TRUE]

\* one of the branches that resolve an input in handleTrackFlight and
\* getLayovers: the airport found (null where there is none), the input as it
\* is left, the notifications shown, and whether the smart match found nothing
Resolve(input, airports, what) ==
    IF input.airport # Undefined
    THEN [found |-> JSONparse(input.airport), input |-> input, toasts |-> << >>,
          unknown |-> FALSE]
    ELSE IF Len(trim(input.value)) > 0
    THEN ResolveMatch(input, findBestMatch(trim(input.value), airports), what)
    ELSE [found |-> Null, input |-> input, toasts |-> << >>, unknown |-> FALSE]

\* the result of getLayovers once the n-th input is resolved as r and the loop
\* has gone on as rest
LayoversPushed(r, rest) ==
    [inputs |-> rest.inputs,
     layovers |-> (IF r.found # Null THEN << r.found >> ELSE << >>) \o rest.layovers,
     toasts |-> r.toasts \o rest.toasts,
     threw |-> rest.threw]

RECURSIVE getLayoversFrom(_, _, _)
RECURSIVE getLayoversAt(_, _, _, _)
\* the loop of getLayovers from the n-th input on: the inputs as they are left,
\* the layovers pushed, the notifications shown, and whether it threw
getLayoversFrom(inputs, airports, n) ==
    IF n > Len(inputs)
    THEN [inputs |-> inputs, layovers |-> << >>, toasts |-> << >>, threw |-> FALSE]
    ELSE getLayoversAt(inputs, airports, n, Resolve(inputs[n], airports, "layover"))

\* the body of the loop with the n-th input resolved as r
getLayoversAt(inputs, airports, n, r) ==
    IF r.unknown
    THEN [inputs |-> inputs, layovers |-> << >>, toasts |-> r.toasts, threw |-> TRUE]
    ELSE LayoversPushed(r, getLayoversFrom([inputs EXCEPT ![n] = r.input], airports, n + 1))

getLayovers(inputs, airports) == getLayoversFrom(inputs, airports, 1)

\* the index, counted from 1, of the first airport of the route whose code is
\* that of the next; 0 where there is none
FirstDuplicate(route) ==
    IF \E i \in 1..(Len(route) - 1) : route[i].code = route[i + 1].code
    THEN CHOOSE i \in 1..(Len(route) - 1) :
             /\ route[i].code = route[i + 1].code
             /\ \A j \in 1..(i - 1) : route[j].code # route[j + 1].code
    ELSE 0

----------------------------------------------------------------------------
(* data/landmarks.js: loadLandmarks.  A CSV text is the sequence of its    *)
(* lines: the header, then lines that are blank or hold a landmark.  An    *)
(* array is [id, items]: two arrays with the same items are two arrays.    *)

\* a line that is empty once it is trimmed
BlankLine == [blank |-> TRUE]

RECURSIVE ParseLines(_, _)
\* the loop of parseLandmarkCSV over the lines after the header: blank lines are
\* passed over, and so are the lines whose id an earlier line had
ParseLines(lines, seenIds) ==
    IF lines = << >> THEN << >>
    ELSE IF Head(lines) = BlankLine THEN ParseLines(Tail(lines), seenIds)
    ELSE IF Head(lines).id \in seenIds THEN ParseLines(Tail(lines), seenIds)
    ELSE << Head(lines) >> \o ParseLines(Tail(lines), seenIds \cup { Head(lines).id })

parseLandmarkCSV(csvText) ==
    IF Len(csvText) <= 1 THEN << >> ELSE ParseLines(Tail(csvText), {})

\* a new array
Array(id, items) == [id |-> id, items |-> items]

----------------------------------------------------------------------------
(* The inputs.  Coordinates are in hundredths of a degree.                 *)

Pt(lat, lon) == [lat |-> lat, lon |-> lon]

\* airports a route starts and ends at: three on the equator, two on either side
\* of the 180th meridian, two on either side of the north pole
Airports ==
    { Pt(0, 0), Pt(0, 1000), Pt(0, -500),
      Pt(0, 16500), Pt(0, -16500), Pt(8000, 500), Pt(8000, -17500) }

\* airports a route stops over at
LayoverAirports == { Pt(0, 1000) }

MaxLayovers == 1

SeqsUpTo(S, n) == UNION { [1..k -> S] : k \in 0..n }

\* the routes between airports o and d with up to n layovers
RoutesOver(origins, layovers, n) ==
    { << o >> \o l \o << d >> : o \in origins, l \in SeqsUpTo(layovers, n), d \in origins }

\* origin, layovers, destination; and the routes of no and of one airport
Routes ==
    { << >> } \cup { << a >> : a \in Airports }
    \cup RoutesOver(Airports, LayoverAirports, MaxLayovers)

Lm(id, lat, lon, tier) == [id |-> id, lat |-> lat, lon |-> lon, tier |-> tier]

\* the landmarks a list is drawn from
LandmarkPool ==
    { Lm(1, 0, 500, 3),      \* on the equator between (0,0) and (0,10)
      Lm(2, 0, 2500, 1),     \* on the equator east of (0,20)
      Lm(3, 0, -100, 3),     \* on the equator between (0,-5) and (0,0)
      Lm(4, 50, 500, 2),     \* 55.6 km north of the equator
      Lm(5, 5, 500, 3),      \* 5.6 km north of the equator
      Lm(6, 0, 17000, 1),    \* on the equator between (0,165) and (0,-165)
      Lm(7, 8500, 500, 1),   \* on the meridian between (80,5) and the pole
      Lm(8, 0, -50, 1) }     \* on the equator 55.6 km west of (0,0)

\* the lists of no and of one landmark
LandmarkLists == { << >> } \cup { << lm >> : lm \in LandmarkPool }

\* the tier tables: the source's, and the source's with the second tier raised
TierTables == { SourceTierRadius, [SourceTierRadius EXCEPT ![2] = 60] }

\* longer lists, over the routes along the equator
OrderAirports == { Pt(0, 0), Pt(0, 1000), Pt(0, -500) }

OrderRoutes ==
    { << >> } \cup { << a >> : a \in OrderAirports }
    \cup RoutesOver(OrderAirports, LayoverAirports, MaxLayovers)

OrderPool == { lm \in LandmarkPool : lm.id \in {1, 3, 4, 5} }

MaxOrderLandmarks == 2

OrderLists == SeqsUpTo(OrderPool, MaxOrderLandmarks)

\* the calls of a session
SessionRoutes == { << Pt(0, 0), Pt(0, 1000) >>, << Pt(0, -500), Pt(0, 0) >>,
                   << Pt(0, 0), Pt(0, 1000), Pt(0, -500) >> }

SessionLists == { << lm >> : lm \in { l \in LandmarkPool : l.id \in {1, 3} } }
                \cup { << Lm(3, 0, -100, 3), Lm(1, 0, 500, 3) >> }

MaxCalls == 3

\* landmarks whose latitude, longitude or both are NaN
NaNPool == { Lm(9, NaN, 500, 3), Lm(10, 0, NaN, 3), Lm(11, NaN, NaN, 1) }

\* lists that mix them with landmarks on and near the equator
NaNLists ==
    SeqsUpTo({ lm \in LandmarkPool : lm.id \in {1, 4} } \cup NaNPool, MaxOrderLandmarks)

\* landmarks and routes to step through the filter with: two of the landmarks lie
\* south-west and south-east of (0,0), more than 180 degrees off a leg due east or
\* due west; one route has a leg that is neither first nor last, one a leg from an
\* airport to itself
StepPool ==
    { lm \in LandmarkPool : lm.id \in {1, 4} }
    \cup { Lm(12, -100, -100, 1), Lm(13, -100, 100, 1) }

StepLists == SeqsUpTo(StepPool, MaxOrderLandmarks)

StepRoutes ==
    { << >>,
      << Pt(0, 0), Pt(0, 1000) >>,
      << Pt(0, 0), Pt(0, -500) >>,
      << Pt(0, 0), Pt(0, 1000), Pt(0, -500) >>,
      << Pt(0, -500), Pt(0, 0), Pt(0, 1000), Pt(0, 2000) >>,
      << Pt(0, 0), Pt(0, 1000), Pt(0, 1000), Pt(0, 2000) >> }

\* the points whose distance from a path is taken
PathPointSet ==
    { PointOf(lm) : lm \in LandmarkPool } \cup Airports
    \cup { Pt(500, 0), Pt(9000, 0) }

\* the paths a distance is taken from
PathAirports == Airports \cup { Pt(0, 2000) }

PathRoutes ==
    { << >> } \cup { << a >> : a \in PathAirports }
    \cup RoutesOver(PathAirports, LayoverAirports, MaxLayovers)

\* the legs a duration is estimated for: between the airports and two more in
\* middle latitudes, with distances in metres from a kilometre on (an hour is
\* resolved to a millionth here)
FlightAirports == Airports \cup { Pt(4000, -7400), Pt(5100, 0) }

FlightDistances == { 1000, 1110000, 5570000, 20000000 }

Leg(origin, dest, distanceMeters) ==
    [origin |-> origin, dest |-> dest, distanceMeters |-> distanceMeters]

FlightLegs ==
    { Leg(o, d, m) : o \in FlightAirports, d \in FlightAirports, m \in FlightDistances }

Airport(code, city, name, type) ==
    [code |-> code, city |-> city, name |-> name, type |-> type]

\* the airports of an autocomplete field: eleven whose codes start with AB, the
\* last of them large; one whose city holds "ab"; two more
ListAirports ==
    [n \in 1..11 |->
        Airport(<< "A", "B", UpperCase[n] >>, << >>, << "F", "i", "e", "l", "d" >>,
                IF n = 11 THEN "large_airport" ELSE "medium_airport")]
    \o << Airport(<< "A", "H", "B" >>, << "A", "b", "h", "a" >>, << "A", "b", "h", "a" >>,
                  "medium_airport"),
          Airport(<< "J", "F", "K" >>, << "Y", "a", "l", "e" >>, << "J", "a", "c", "k" >>,
                  "large_airport"),
          Airport(<< "L", "A", "X" >>, << "L", "A" >>, << "L", "a", "x" >>,
                  "large_airport") >>

\* what is typed into the field
Typed ==
    { << >>, << "a" >>, << "a", "b" >>, << "A", "B", "C" >>, << "j", "f" >>, << "l", "a" >>,
      << "x", "x" >> }

\* paths of three legs and more: eastward, westward, there and back, with a leg
\* from an airport to itself, over the pole and across the 180th meridian
LongPaths ==
    { << Pt(0, -500), Pt(0, 0), Pt(0, 1000), Pt(0, 2000) >>,
      << Pt(0, 2000), Pt(0, 1000), Pt(0, 0), Pt(0, -500) >>,
      << Pt(0, 0), Pt(0, 1000), Pt(0, 0), Pt(0, 1000) >>,
      << Pt(0, 0), Pt(0, 1000), Pt(0, 1000), Pt(0, 2000) >>,
      << Pt(8000, 500), Pt(0, 0), Pt(0, 1000), Pt(8000, -17500) >>,
      << Pt(0, -500), Pt(0, 0), Pt(0, 1000), Pt(0, 2000), Pt(0, 16500), Pt(0, -16500) >> }

\* the segments a point's distance is taken from: from any airport to any
SegmentPaths == { << a, b >> : a \in PathAirports, b \in PathAirports }

\* the points tested against the extent of a path: those above and points with a
\* coordinate that is NaN
ExtentPoints == PathPointSet \cup { Pt(NaN, 0), Pt(0, NaN), Pt(NaN, NaN) }

\* the paths of two waypoints they are tested against: the segments above and
\* segments with a waypoint whose latitude is NaN, as parseFloat leaves it
ExtentPaths ==
    SegmentPaths \cup { << Pt(NaN, 0), Pt(0, 1000) >>, << Pt(0, 0), Pt(NaN, 1000) >> }

\* the boxes a point is tested against: boxes given in hundredths of a degree, one
\* of them a line, one up to the 180th meridian, one across it, and boxes made for
\* routes
Box(minLat, maxLat, minLon, maxLon) ==
    [minLat |-> minLat * (F \div U), maxLat |-> maxLat * (F \div U),
     minLon |-> minLon * (F \div U), maxLon |-> maxLon * (F \div U)]

WithinBoxes ==
    { Box(-500, 500, -1000, 1000), Box(0, 0, 0, 1000), Box(-500, 8000, 16500, 18000),
      Box(-500, 500, 17000, -17000), EmptyBox,
      createBoundingBox(<< Pt(0, 0), Pt(0, 1000) >>, 130),
      createBoundingBox(<< Pt(0, 16500), Pt(0, -16500) >>, 130),
      createBoundingBox(<< Pt(8000, 500) >>, 100) }

\* the points tested: on the edges and the corners of the boxes, next to them, and
\* on the 180th meridian under either of its longitudes
WithinPoints ==
    { Pt(lat, lon) : lat \in { -600, -500, 0, 500, 600, 8000 },
                     lon \in { -18000, -17000, -1100, -1000, 0, 1000, 1100, 16500,
                               17000, 18000 } }

\* the routes and buffers a bounding box is made for
BoxAirports ==
    Airports \cup { Pt(9000, 0), Pt(9000, 9000), Pt(-9000, 4500), Pt(-3300, 15100) }

MaxBoxAirports == 2

BoxRoutes == SeqsUpTo(BoxAirports, MaxBoxAirports) \ { << >> }

BufferKms == { 0, 100, 130 }

\* the airports of the page: one without a city, one with
PageAirport(code, city, name, type, lat, lon) ==
    [code |-> code, city |-> city, name |-> name, type |-> type, lat |-> lat, lon |-> lon]

PageAirports ==
    << PageAirport(<< "A", "A", "A" >>, << >>, << "A", "l", "f", "a" >>,
                   "medium_airport", 0, 0),
       PageAirport(<< "B", "B", "B" >>, << "B", "a", "l", "i" >>, << "B", "a", "l", "i" >>,
                   "large_airport", 0, 1000) >>

\* what is typed into an input of the page: nothing, a part of a city with a
\* blank after it, and a text no airport matches
PageTyped == { << >>, << "b", "a", " " >>, << "x", "x" >> }

\* what is typed into a layover input while stops are added and removed
LayoverTyped == { << >>, << "x", "x" >> }

\* the landmarks loadLandmarks resolves with: one on the equator between the two
\* airports, one east of both
PageLandmarks == << Lm(1, 0, 500, 3), Lm(2, 0, 2500, 1) >>

\* the texts a fetch of the landmark CSV answers with: one with a landmark, a
\* blank line and the landmark again; one with the header alone
CsvTexts ==
    { << [header |-> TRUE], [id |-> 1, lat |-> 0, lon |-> 500, tier |-> 3], BlankLine,
         [id |-> 1, lat |-> 0, lon |-> 500, tier |-> 3] >>,
      << [header |-> TRUE] >> }

\* the calls of loadLandmarks that are followed
MaxLoads == 3

\* the layover groups the page is taken to while its inputs are typed into
MaxPageLayovers == 1

\* the landmarks rendered whose markers are hovered
MaxWindows == 2

\* the calls of setTimeout that are followed
MaxTimers == 4

\* the listeners of 'mouseleave' one popup is given
MaxListeners == 2

\* the info windows of the rendering, in the order of landmarkInfoWindows
Windows == 1..MaxWindows

----------------------------------------------------------------------------
(* The state.  The functions of utils/geo.js and filterLandmarksInCorridor *)
(* keep no state of their own; the variables hold the arguments and the    *)
(* results of their calls.                                                 *)

VARIABLES
    landmarks,        \* filterLandmarksInCorridor: the list passed
    routeAirports,    \* filterLandmarksInCorridor, createBoundingBox: the route passed
    TIER_RADIUS_KM,   \* the module's tier table
    filtered,         \* filterLandmarksInCorridor: the list returned
    calls,            \* the calls of filterLandmarksInCorridor made so far
    point,            \* getDistanceFromPath: the point passed
    pathPoints,       \* getDistanceFromPath: the path passed
    distance,         \* getDistanceFromPath: the value returned
    bufferKm,         \* createBoundingBox: the buffer passed
    bounds,           \* createBoundingBox: the box returned
    inside,           \* isWithinBoundingBox: the value returned
    preFiltered,      \* filterLandmarksInCorridor: the landmarks inside the box
    lmAt,             \* the index in preFiltered of the landmark the second filter is at
    segAt,            \* getDistanceFromPath: the loop's i, counted from 1
    minAt,            \* getDistanceFromPath: minDistance
    stageAt,          \* the call of normalizeAngle that is running
    angleAt,          \* normalizeAngle: angle
    evaluated,        \* the (landmark, segment) pairs the loop body has run for
    evaluatedAgain,   \* those it has run for more than once
    flight,           \* calculateFlightDuration: origin, dest and distanceMeters
    flightHours,      \* calculateFlightDuration: the value returned
    currentMatches,   \* setupAutocomplete: the airports listed
    highlightedIndex, \* setupAutocomplete: the index highlighted, counted from 0
    active,           \* whether suggestionBox has the class 'active'
    selected,         \* the arguments selectAirport was called with, oldest first
    originInput,      \* main.js: the element 'origin-input'
    destInput,        \* main.js: the element 'dest-input'
    layoverInputs,    \* the inputs of the '.layover-group' elements, in document order
    addBtnDisabled,   \* the property disabled of 'add-layover-btn'
    notified,         \* the toasts the handler that ran last showed, in order
    mapReady,         \* map.js: whether map is set
    drawn,            \* map.js: the route markers holds the lines and dots of
    flightInfo,       \* the route 'flight-info' shows, << >> while it is hidden
    stopsView,        \* "inputs", "exiting", "collapsed" or "entering"
    rendered,         \* the landmarks landmarkMarkers holds markers of
    landmarksCache,   \* data/landmarks.js: landmarksCache
    loads,            \* the calls of loadLandmarks, oldest first: where each is
    withinExtent,     \* isWithinPathExtent: the value returned
    openWindows,      \* the info windows of landmarkInfoWindows that are open
    currentOpenInfoWindow, \* layers/landmarks.js: the info window, 0 for null
    closeTimeout,     \* layers/landmarks.js: the id of a timer, 0 for null
    timers,           \* the timers setTimeout has made, by id: what each will do
    popupListeners,   \* for the popup of each window, the windows of the domready
                      \* handlers that gave it listeners, in the order they did
    domreadyDue,      \* the windows opened whose 'domready' has not fired yet
    pointer,          \* where the mouse is: the map, a marker or a popup
    pc                \* "call" before the call of a single function, "done" after it

stepVars == << preFiltered, lmAt, segAt, minAt, stageAt, angleAt, evaluated,
               evaluatedAgain >>

flightVars == << flight, flightHours >>

listVars == << currentMatches, highlightedIndex, active, selected >>

pageVars == << originInput, destInput, layoverInputs, addBtnDisabled, notified,
               mapReady, drawn, flightInfo, stopsView, rendered >>

cacheVars == << landmarksCache, loads >>

extentVars == << withinExtent >>

hoverVars == << openWindows, currentOpenInfoWindow, closeTimeout, timers, popupListeners,
               domreadyDue, pointer >>

sideVars == << extentVars, hoverVars >>

appVars == << pageVars, cacheVars, sideVars >>

restVars == << inside, stepVars, flightVars, listVars, appVars >>

vars == << landmarks, routeAirports, TIER_RADIUS_KM, filtered, calls,
           point, pathPoints, distance, bufferKm, bounds, restVars, pc >>

filterVars == << landmarks, routeAirports, TIER_RADIUS_KM, filtered, calls >>

pathVars == << point, pathPoints, distance >>

boxVars == << bufferKm, bounds >>

\* getDistanceFromPath is not called
NoPath == point = Pt(0, 0) /\ pathPoints = << >> /\ distance = 0

\* createBoundingBox is not called on its own
NoBox == bufferKm = 0 /\ bounds = EmptyBox

\* nothing has been passed to filterLandmarksInCorridor
NoFilter == landmarks = << >> /\ routeAirports = << >> /\ filtered = << >> /\ calls = << >>

\* filterLandmarksInCorridor is not stepped through
NoSteps ==
    /\ preFiltered = << >> /\ lmAt = 0 /\ segAt = 0 /\ minAt = Infinity
    /\ stageAt = "none" /\ angleAt = 0 /\ evaluated = {} /\ evaluatedAgain = {}

\* calculateFlightDuration is not called
NoFlight == flight = << >> /\ flightHours = 0

\* no autocomplete is set up
NoList == currentMatches = << >> /\ highlightedIndex = -1 /\ active = FALSE /\ selected = << >>

\* the page is not open
NoPage ==
    /\ originInput = Input(<< >>, Undefined) /\ destInput = Input(<< >>, Undefined)
    /\ layoverInputs = << >> /\ addBtnDisabled = FALSE /\ notified = << >>
    /\ mapReady = FALSE /\ drawn = << >> /\ flightInfo = << >>
    /\ stopsView = "inputs" /\ rendered = << >>

\* loadLandmarks is not called
NoCache == landmarksCache = Null /\ loads = << >>

\* isWithinPathExtent is not called
NoExtent == withinExtent = FALSE

\* the mouse is over the map, over the marker of window w, or in the popup of w
OnMap == [on |-> "map", w |-> 0]

OnMarker(w) == [on |-> "marker", w |-> w]

OnPopup(w) == [on |-> "popup", w |-> w]

\* no marker has been hovered
NoHover ==
    /\ openWindows = {} /\ currentOpenInfoWindow = 0 /\ closeTimeout = 0
    /\ timers = << >> /\ popupListeners = [w \in Windows |-> << >>]
    /\ domreadyDue = {} /\ pointer = OnMap

NoSide == NoExtent /\ NoHover

NoApp == NoPage /\ NoCache /\ NoSide

NoRest == inside = FALSE /\ NoSteps /\ NoFlight /\ NoList /\ NoApp

CallRecord(lms, route, result) ==
    [landmarks |-> lms, routeAirports |-> route, result |-> result]

----------------------------------------------------------------------------
(* filterLandmarksInCorridor called once, as handleTrackFlight calls it.   *)

Init ==
    /\ landmarks \in LandmarkLists
    /\ routeAirports \in Routes
    /\ TIER_RADIUS_KM \in TierTables
    /\ filtered = << >>
    /\ calls = << >>
    /\ pc = "call"
    /\ NoPath /\ NoBox /\ NoRest

\* a variant of the call that filters the list passed in place
FilterCallInPlace ==
    /\ pc = "call"
    /\ pc' = "done"
    /\ filtered' = filterLandmarksInCorridor(landmarks, routeAirports, TIER_RADIUS_KM)
    /\ calls' = << CallRecord(landmarks, routeAirports, filtered') >>
    /\ landmarks' = filtered'
    /\ UNCHANGED << routeAirports, TIER_RADIUS_KM, pathVars, boxVars, restVars >>

FilterCall ==
    /\ pc = "call"
    /\ pc' = "done"
    /\ filtered' = filterLandmarksInCorridor(landmarks, routeAirports, TIER_RADIUS_KM)
    /\ calls' = << CallRecord(landmarks, routeAirports, filtered') >>
    /\ UNCHANGED << landmarks, routeAirports, TIER_RADIUS_KM, pathVars, boxVars,
                    restVars >>

Next == FilterCall

Spec == Init /\ [][Next]_vars

\* the same with lists of several landmarks
InitOrder ==
    /\ landmarks \in OrderLists
    /\ routeAirports \in OrderRoutes
    /\ TIER_RADIUS_KM = SourceTierRadius
    /\ filtered = << >>
    /\ calls = << >>
    /\ pc = "call"
    /\ NoPath /\ NoBox /\ NoRest

SpecOrder == InitOrder /\ [][Next]_vars

\* the same with landmarks whose coordinates are NaN
InitNaN ==
    /\ landmarks \in NaNLists
    /\ routeAirports \in OrderRoutes
    /\ TIER_RADIUS_KM = SourceTierRadius
    /\ filtered = << >>
    /\ calls = << >>
    /\ pc = "call"
    /\ NoPath /\ NoBox /\ NoRest

SpecNaN == InitNaN /\ [][Next]_vars

----------------------------------------------------------------------------
(* A session: filterLandmarksInCorridor called again and again.            *)

InitSession ==
    /\ TIER_RADIUS_KM = SourceTierRadius
    /\ pc = "session"
    /\ NoFilter /\ NoPath /\ NoBox /\ NoRest

\* a variant of the call that filters into a list kept from the call before, as
\* renderLandmarks keeps landmarkMarkers
SessionCallKeeping(lms, route) ==
    /\ Len(calls) < MaxCalls
    /\ landmarks' = lms
    /\ routeAirports' = route
    /\ filtered' = filtered \o filterLandmarksInCorridor(lms, route, TIER_RADIUS_KM)
    /\ calls' = Append(calls, CallRecord(lms, route, filtered'))
    /\ UNCHANGED << TIER_RADIUS_KM, pathVars, boxVars, pc, restVars >>

SessionCall(lms, route) ==
    /\ Len(calls) < MaxCalls
    /\ landmarks' = lms
    /\ routeAirports' = route
    /\ filtered' = filterLandmarksInCorridor(lms, route, TIER_RADIUS_KM)
    /\ calls' = Append(calls, CallRecord(lms, route, filtered'))
    /\ UNCHANGED << TIER_RADIUS_KM, pathVars, boxVars, pc, restVars >>

NextSession == \E lms \in SessionLists, route \in SessionRoutes : SessionCall(lms, route)

SpecSession == InitSession /\ [][NextSession]_vars

----------------------------------------------------------------------------
(* getDistanceFromPath and createBoundingBox called on their own.          *)

InitPath ==
    /\ point \in PathPointSet
    /\ pathPoints \in PathRoutes
    /\ distance = 0
    /\ pc = "call"
    /\ TIER_RADIUS_KM = SourceTierRadius
    /\ NoFilter /\ NoBox /\ NoRest

DistanceCall ==
    /\ pc = "call"
    /\ pc' = "done"
    /\ distance' = getDistanceFromPath(point, pathPoints)
    /\ UNCHANGED << point, pathPoints, filterVars, boxVars, restVars >>

NextPath == DistanceCall

SpecPath == InitPath /\ [][NextPath]_vars

\* the same with paths of three legs and more
InitLongPath ==
    /\ point \in PathPointSet
    /\ pathPoints \in LongPaths
    /\ distance = 0
    /\ pc = "call"
    /\ TIER_RADIUS_KM = SourceTierRadius
    /\ NoFilter /\ NoBox /\ NoRest

SpecLongPath == InitLongPath /\ [][NextPath]_vars

\* pointToSegmentDistance called on its own, for the segment pathPoints[1], pathPoints[2]
InitSegment ==
    /\ point \in PathPointSet
    /\ pathPoints \in SegmentPaths
    /\ distance = 0
    /\ pc = "call"
    /\ TIER_RADIUS_KM = SourceTierRadius
    /\ NoFilter /\ NoBox /\ NoRest

SegmentCall ==
    /\ pc = "call"
    /\ pc' = "done"
    /\ distance' = pointToSegmentDistance(point, pathPoints[1], pathPoints[2])
    /\ UNCHANGED << point, pathPoints, filterVars, boxVars, restVars >>

NextSegment == SegmentCall

SpecSegment == InitSegment /\ [][NextSegment]_vars

\* isWithinPathExtent and getDistanceFromPath called with the same point and path
InitExtent ==
    /\ point \in ExtentPoints
    /\ pathPoints \in ExtentPaths
    /\ distance = 0
    /\ withinExtent = FALSE
    /\ pc = "call"
    /\ TIER_RADIUS_KM = SourceTierRadius
    /\ NoFilter /\ NoBox /\ inside = FALSE /\ NoSteps /\ NoFlight /\ NoList
    /\ NoPage /\ NoCache /\ NoHover

ExtentCall ==
    /\ pc = "call"
    /\ pc' = "done"
    /\ withinExtent' = isWithinPathExtent(point, pathPoints)
    /\ distance' = getDistanceFromPath(point, pathPoints)
    /\ UNCHANGED << point, pathPoints, filterVars, boxVars, inside, stepVars, flightVars,
                    listVars, pageVars, cacheVars, hoverVars >>

NextExtent == ExtentCall

SpecExtent == InitExtent /\ [][NextExtent]_vars

InitBox ==
    /\ routeAirports \in BoxRoutes
    /\ bufferKm \in BufferKms
    /\ bounds = EmptyBox
    /\ pc = "call"
    /\ TIER_RADIUS_KM = SourceTierRadius
    /\ landmarks = << >> /\ filtered = << >> /\ calls = << >>
    /\ NoPath /\ NoRest

BoxCall ==
    /\ pc = "call"
    /\ pc' = "done"
    /\ bounds' = createBoundingBox(routeAirports, bufferKm)
    /\ UNCHANGED << bufferKm, filterVars, pathVars, restVars >>

NextBox == BoxCall

SpecBox == InitBox /\ [][NextBox]_vars

\* isWithinBoundingBox called on its own
InitWithin ==
    /\ point \in WithinPoints
    /\ bounds \in WithinBoxes
    /\ inside = FALSE
    /\ pc = "call"
    /\ TIER_RADIUS_KM = SourceTierRadius
    /\ pathPoints = << >> /\ distance = 0 /\ bufferKm = 0
    /\ NoFilter /\ NoSteps /\ NoFlight /\ NoList /\ NoApp

WithinCall ==
    /\ pc = "call"
    /\ pc' = "done"
    /\ inside' = isWithinBoundingBox(point, bounds)
    /\ UNCHANGED << filterVars, pathVars, boxVars, stepVars, flightVars, listVars,
                    appVars >>

NextWithin == WithinCall

SpecWithin == InitWithin /\ [][NextWithin]_vars

----------------------------------------------------------------------------
(* calculateFlightDuration called for a leg, as updateFlightInfo calls it. *)

InitFlight ==
    /\ flight \in FlightLegs
    /\ flightHours = 0
    /\ pc = "call"
    /\ TIER_RADIUS_KM = SourceTierRadius
    /\ inside = FALSE
    /\ NoFilter /\ NoPath /\ NoBox /\ NoSteps /\ NoList /\ NoApp

DurationCall ==
    /\ pc = "call"
    /\ pc' = "done"
    /\ flightHours' = calculateFlightDuration(flight.origin, flight.dest,
                                              flight.distanceMeters)
    /\ UNCHANGED << flight, filterVars, pathVars, boxVars, inside, stepVars, listVars,
                    appVars >>

NextFlight == DurationCall

SpecFlight == InitFlight /\ [][NextFlight]_vars

----------------------------------------------------------------------------
(* An autocomplete field, from setupAutocomplete on: its handlers.         *)

InitList ==
    /\ NoList
    /\ pc = "listening"
    /\ TIER_RADIUS_KM = SourceTierRadius
    /\ inside = FALSE
    /\ NoFilter /\ NoPath /\ NoBox /\ NoSteps /\ NoFlight /\ NoApp

ListFrame ==
    UNCHANGED << filterVars, pathVars, boxVars, inside, stepVars, flightVars, appVars, pc >>

\* selectAirport: the box is closed, nothing is highlighted, onSelect is called
selectAirport(airport) ==
    /\ active' = FALSE
    /\ highlightedIndex' = -1
    /\ selected' = << airport >>
    /\ UNCHANGED currentMatches

\* a variant of the input handler that leaves highlightedIndex as it is
OnInputKeeping(value) ==
    /\ currentMatches' = IF Len(value) < 2 THEN << >>
                         ELSE MatchesOf(ListAirports, toLowerCase(value))
    /\ active' = (Len(currentMatches') > 0)
    /\ UNCHANGED << highlightedIndex, selected >>
    /\ ListFrame

\* the input handler
OnInput(value) ==
    /\ currentMatches' = IF Len(value) < 2 THEN << >>
                         ELSE MatchesOf(ListAirports, toLowerCase(value))
    /\ highlightedIndex' = -1
    /\ active' = (Len(currentMatches') > 0)
    /\ UNCHANGED selected
    /\ ListFrame

\* the keydown handler goes on past its first line
KeysHeard == active /\ Len(currentMatches) # 0

KeyArrowDown ==
    /\ KeysHeard
    /\ highlightedIndex' = (highlightedIndex + 1) % Len(currentMatches)
    /\ UNCHANGED << currentMatches, active, selected >>
    /\ ListFrame

KeyArrowUp ==
    /\ KeysHeard
    /\ highlightedIndex' = IF highlightedIndex <= 0 THEN Len(currentMatches) - 1
                           ELSE highlightedIndex - 1
    /\ UNCHANGED << currentMatches, active, selected >>
    /\ ListFrame

\* indexToSelect
IndexToSelect == IF highlightedIndex >= 0 THEN highlightedIndex ELSE 0

KeyEnter ==
    /\ KeysHeard
    /\ selectAirport(ItemAt(currentMatches, IndexToSelect))
    /\ ListFrame

KeyTab ==
    /\ KeysHeard
    /\ selectAirport(ItemAt(currentMatches, IndexToSelect))
    /\ ListFrame

KeyEscape ==
    /\ KeysHeard
    /\ active' = FALSE
    /\ highlightedIndex' = -1
    /\ UNCHANGED << currentMatches, selected >>
    /\ ListFrame

\* mouseenter on the item made for currentMatches[index]
ItemMouseEnter(index) ==
    /\ highlightedIndex' = index
    /\ UNCHANGED << currentMatches, active, selected >>
    /\ ListFrame

\* mousedown on the item made for currentMatches[index]
ItemMouseDown(index) ==
    /\ selectAirport(currentMatches[index + 1])
    /\ ListFrame

\* the timeout of the blur handler, and a click outside the field and the box
BlurTimeout ==
    /\ active' = FALSE
    /\ highlightedIndex' = -1
    /\ UNCHANGED << currentMatches, selected >>
    /\ ListFrame

\* a scroll outside the box while it is open
DocumentScroll ==
    /\ active
    /\ active' = FALSE
    /\ UNCHANGED << currentMatches, highlightedIndex, selected >>
    /\ ListFrame

NextList ==
    \/ \E value \in Typed : OnInput(value)
    \/ KeyArrowDown
    \/ KeyArrowUp
    \/ KeyEnter
    \/ KeyTab
    \/ KeyEscape
    \/ \E index \in 0..(Len(currentMatches) - 1) : ItemMouseEnter(index)
    \/ \E index \in 0..(Len(currentMatches) - 1) : ItemMouseDown(index)
    \/ BlurTimeout
    \/ DocumentScroll

SpecList == InitList /\ [][NextList]_vars

----------------------------------------------------------------------------
(* filterLandmarksInCorridor step by step: the second filter's callback    *)
(* for one landmark after the other, the for loop of getDistanceFromPath   *)
(* for one segment after the other, the while loops of normalizeAngle for  *)
(* one iteration after the other.                                          *)

InitSteps ==
    /\ landmarks \in StepLists
    /\ routeAirports \in StepRoutes
    /\ TIER_RADIUS_KM = SourceTierRadius
    /\ filtered = << >>
    /\ calls = << >>
    /\ pc = "call"
    /\ NoPath /\ NoBox /\ NoRest

\* the landmark the second filter is at, and the segment the loop is at
StepPoint == PointOf(preFiltered[lmAt])

StepStart == PointOf(routeAirports[segAt])

StepEnd == PointOf(routeAirports[segAt + 1])

\* i === pathPoints.length - 2
StepLast == Len(routeAirports) - 1

\* what the steps leave alone
StepFrame == UNCHANGED << landmarks, routeAirports, TIER_RADIUS_KM, pathVars, boxVars,
                          inside, flightVars, listVars, appVars >>

\* the early return, or the first filter
PreFilter ==
    /\ pc = "call"
    /\ IF Len(landmarks) = 0 \/ Len(routeAirports) = 0
       THEN /\ pc' = "done"
            /\ calls' = << CallRecord(landmarks, routeAirports, << >>) >>
            /\ UNCHANGED << preFiltered, lmAt >>
       ELSE /\ pc' = "filter"
            /\ preFiltered' = FilterBounds(landmarks,
                                  createBoundingBox(routeAirports,
                                                    MaxRadiusKm(TIER_RADIUS_KM) + 50))
            /\ lmAt' = 1
            /\ UNCHANGED calls
    /\ UNCHANGED << filtered, segAt, minAt, stageAt, angleAt, evaluated, evaluatedAgain >>
    /\ StepFrame

\* the second filter calls its callback for the next landmark: getDistanceFromPath
\* starts with minDistance = Infinity and i = 0
FilterNext ==
    /\ pc = "filter"
    /\ lmAt <= Len(preFiltered)
    /\ pc' = "loop"
    /\ segAt' = 1
    /\ minAt' = Infinity
    /\ UNCHANGED << filtered, calls, preFiltered, lmAt, stageAt, angleAt, evaluated,
                    evaluatedAgain >>
    /\ StepFrame

\* the second filter is through: return filtered
FilterReturn ==
    /\ pc = "filter"
    /\ lmAt > Len(preFiltered)
    /\ pc' = "done"
    /\ calls' = << CallRecord(landmarks, routeAirports, filtered) >>
    /\ UNCHANGED << filtered, stepVars >>
    /\ StepFrame

\* i < pathPoints.length - 1 is false: getDistanceFromPath returns minDistance and
\* the callback returns distanceKm <= tierRadiusKm
LoopExit ==
    /\ pc = "loop"
    /\ segAt > StepLast
    /\ pc' = "filter"
    /\ filtered' = IF /\ preFiltered[lmAt].tier \in DOMAIN TIER_RADIUS_KM
                      /\ minAt <= TIER_RADIUS_KM[preFiltered[lmAt].tier] * 1000
                   THEN Append(filtered, preFiltered[lmAt])
                   ELSE filtered
    /\ lmAt' = lmAt + 1
    /\ UNCHANGED << calls, preFiltered, segAt, minAt, stageAt, angleAt, evaluated,
                    evaluatedAgain >>
    /\ StepFrame

\* the loop body begins for segment i: the origin cutoff's normalizeAngle if i === 0,
\* else the destination cutoff's if i === pathPoints.length - 2, else the call of
\* pointToSegmentDistance
LoopBody ==
    /\ pc = "loop"
    /\ segAt <= StepLast
    /\ evaluated' = evaluated \cup { << lmAt, segAt >> }
    /\ evaluatedAgain' = evaluatedAgain \cup ({ << lmAt, segAt >> } \cap evaluated)
    /\ IF segAt = 1
       THEN /\ pc' = "while"
            /\ stageAt' = "origin"
            /\ angleAt' = bearing(StepStart, StepPoint) - bearing(StepStart, StepEnd)
       ELSE IF segAt = StepLast
       THEN /\ pc' = "while"
            /\ stageAt' = "destination"
            /\ angleAt' = bearing(StepEnd, StepPoint) - bearing(StepStart, StepEnd)
       ELSE /\ pc' = "segment"
            /\ UNCHANGED << stageAt, angleAt >>
    /\ UNCHANGED << filtered, calls, preFiltered, lmAt, segAt, minAt >>
    /\ StepFrame

\* normalizeAngle: while (angle > Math.PI) angle -= 2 * Math.PI
WhileDown ==
    /\ pc = "while"
    /\ angleAt > PI
    /\ angleAt' = angleAt - 2 * PI
    /\ UNCHANGED << filtered, calls, preFiltered, lmAt, segAt, minAt, stageAt, evaluated,
                    evaluatedAgain, pc >>
    /\ StepFrame

\* normalizeAngle: while (angle < -Math.PI) angle += 2 * Math.PI
WhileUp ==
    /\ pc = "while"
    /\ angleAt <= PI
    /\ angleAt < -PI
    /\ angleAt' = angleAt + 2 * PI
    /\ UNCHANGED << filtered, calls, preFiltered, lmAt, segAt, minAt, stageAt, evaluated,
                    evaluatedAgain, pc >>
    /\ StepFrame

\* normalizeAngle has returned angle
Normalized == pc = "while" /\ angleAt <= PI /\ angleAt >= -PI

\* the origin cutoff: diff > Math.PI / 2 continues, else the destination cutoff of a
\* route of one leg, else pointToSegmentDistance
OriginCutoff ==
    /\ Normalized
    /\ stageAt = "origin"
    /\ IF Abs(angleAt) > HALF_PI
       THEN /\ pc' = "continue"
            /\ UNCHANGED << stageAt, angleAt >>
       ELSE IF segAt = StepLast
       THEN /\ pc' = "while"
            /\ stageAt' = "destination"
            /\ angleAt' = bearing(StepEnd, StepPoint) - bearing(StepStart, StepEnd)
       ELSE /\ pc' = "segment"
            /\ UNCHANGED << stageAt, angleAt >>
    /\ UNCHANGED << filtered, calls, preFiltered, lmAt, segAt, minAt, evaluated,
                    evaluatedAgain >>
    /\ StepFrame

\* the destination cutoff: diff < Math.PI / 2 continues, else pointToSegmentDistance
DestinationCutoff ==
    /\ Normalized
    /\ stageAt = "destination"
    /\ pc' = IF Abs(angleAt) < HALF_PI THEN "continue" ELSE "segment"
    /\ UNCHANGED << filtered, calls, preFiltered, lmAt, segAt, minAt, stageAt, angleAt,
                    evaluated, evaluatedAgain >>
    /\ StepFrame

\* a variant of the continue that leaves i as it is
SkipSegmentStaying ==
    /\ pc = "continue"
    /\ pc' = "loop"
    /\ UNCHANGED << filtered, calls, stepVars >>
    /\ StepFrame

\* continue: i++
SkipSegment ==
    /\ pc = "continue"
    /\ pc' = "loop"
    /\ segAt' = segAt + 1
    /\ UNCHANGED << filtered, calls, preFiltered, lmAt, minAt, stageAt, angleAt, evaluated,
                    evaluatedAgain >>
    /\ StepFrame

\* pointToSegmentDistance begins: a segment shorter than a metre returns distToStart,
\* else the normalizeAngle of angleStart
SegmentEnter ==
    /\ pc = "segment"
    /\ IF haversineDistance(StepStart, StepEnd) < 1
       THEN /\ pc' = "loop"
            /\ minAt' = Min(minAt, haversineDistance(StepStart, StepPoint))
            /\ segAt' = segAt + 1
            /\ UNCHANGED << stageAt, angleAt >>
       ELSE /\ pc' = "while"
            /\ stageAt' = "start"
            /\ angleAt' = bearing(StepStart, StepPoint) - bearing(StepStart, StepEnd)
            /\ UNCHANGED << minAt, segAt >>
    /\ UNCHANGED << filtered, calls, preFiltered, lmAt, evaluated, evaluatedAgain >>
    /\ StepFrame

\* angleStart > Math.PI / 2 returns distToStart, else the normalizeAngle of angleEnd
AngleAtStart ==
    /\ Normalized
    /\ stageAt = "start"
    /\ IF Abs(angleAt) > HALF_PI
       THEN /\ pc' = "loop"
            /\ minAt' = Min(minAt, haversineDistance(StepStart, StepPoint))
            /\ segAt' = segAt + 1
            /\ UNCHANGED << stageAt, angleAt >>
       ELSE /\ pc' = "while"
            /\ stageAt' = "end"
            /\ angleAt' = bearing(StepEnd, StepPoint) - bearing(StepEnd, StepStart)
            /\ UNCHANGED << minAt, segAt >>
    /\ UNCHANGED << filtered, calls, preFiltered, lmAt, evaluated, evaluatedAgain >>
    /\ StepFrame

\* angleEnd > Math.PI / 2 returns distToEnd, else the cross-track distance; the loop
\* takes the minimum and goes on to i + 1
AngleAtEnd ==
    /\ Normalized
    /\ stageAt = "end"
    /\ pc' = "loop"
    /\ minAt' = Min(minAt,
                    IF Abs(angleAt) > HALF_PI
                    THEN haversineDistance(StepEnd, StepPoint)
                    ELSE CrossTrack(OverR(haversineDistance(StepStart, StepPoint)),
                                    bearing(StepStart, StepPoint)
                                    - bearing(StepStart, StepEnd)))
    /\ segAt' = segAt + 1
    /\ UNCHANGED << filtered, calls, preFiltered, lmAt, stageAt, angleAt, evaluated,
                    evaluatedAgain >>
    /\ StepFrame

NextSteps ==
    \/ PreFilter
    \/ FilterNext
    \/ FilterReturn
    \/ LoopExit
    \/ LoopBody
    \/ WhileDown
    \/ WhileUp
    \/ OriginCutoff
    \/ DestinationCutoff
    \/ SkipSegment
    \/ SegmentEnter
    \/ AngleAtStart
    \/ AngleAtEnd

SpecSteps == InitSteps /\ [][NextSteps]_vars

\* the steps return what the call returns
StepsAgree ==
    pc = "done" => filtered = filterLandmarksInCorridor(landmarks, routeAirports,
                                                        TIER_RADIUS_KM)

----------------------------------------------------------------------------
(* The page: main.js and the stops of ui.js.  The inputs are counted from  *)
(* 1: the origin, the destination, then the layovers in document order.    *)
(* Every handler is one action; notified holds the toasts it showed.       *)

AllInputs == << originInput, destInput >> \o layoverInputs

\* the inputs after a handler
WriteInputs(all) ==
    /\ originInput' = all[1]
    /\ destInput' = all[2]
    /\ layoverInputs' = SubSeq(all, 3, Len(all))

\* a variant of canAddMoreStops that compares with <=
canAddMoreStopsInclusive(groups) == (Len(groups) + 2) <= MAX_TOTAL_STOPS

\* canAddMoreStops, of the '.layover-group' elements of the container
canAddMoreStops(groups) == (Len(groups) + 2) < MAX_TOTAL_STOPS

\* the inputs, the add button and the track button are displayed
StopsShown == stopsView \in { "inputs", "exiting" }

PageFrame ==
    UNCHANGED << TIER_RADIUS_KM, calls, pathVars, boxVars, inside, stepVars, flightVars,
                 listVars, cacheVars, sideVars, pc >>

InitPage ==
    /\ originInput = Input(<< >>, Undefined) /\ destInput = Input(<< >>, Undefined)
    /\ layoverInputs = << >> /\ addBtnDisabled = FALSE /\ notified = << >>
    /\ mapReady \in BOOLEAN
    /\ drawn = << >> /\ flightInfo = << >> /\ stopsView = "inputs" /\ rendered = << >>
    /\ landmarks = << >> /\ routeAirports = << >> /\ filtered = << >> /\ calls = << >>
    /\ TIER_RADIUS_KM = SourceTierRadius
    /\ pc = "page"
    /\ NoPath /\ NoBox /\ inside = FALSE /\ NoSteps /\ NoFlight /\ NoList /\ NoCache
    /\ NoSide

\* the click listener of 'add-layover-btn': the group it appends has an empty
\* input; updateAddButtonState
AddLayoverClick ==
    /\ StopsShown
    /\ IF ~canAddMoreStops(layoverInputs)
       THEN /\ notified' = << Toast(<< "Maximum", "stops" >>, "error") >>
            /\ UNCHANGED << layoverInputs, addBtnDisabled >>
       ELSE /\ layoverInputs' = Append(layoverInputs, Input(<< >>, Undefined))
            /\ addBtnDisabled' = ~canAddMoreStops(layoverInputs')
            /\ notified' = << >>
    /\ UNCHANGED << originInput, destInput, mapReady, drawn, flightInfo, stopsView, rendered, landmarks, routeAirports, filtered >>
    /\ PageFrame

\* the click listener of the n-th group's '.remove-layover-btn'
RemoveLayoverClick(n) ==
    /\ StopsShown
    /\ layoverInputs' = SubSeq(layoverInputs, 1, n - 1) \o SubSeq(layoverInputs, n + 1, Len(layoverInputs))
    /\ addBtnDisabled' = ~canAddMoreStops(layoverInputs')
    /\ notified' = << >>
    /\ UNCHANGED << originInput, destInput, mapReady, drawn, flightInfo, stopsView, rendered, landmarks, routeAirports, filtered >>
    /\ PageFrame

\* a variant of the input listeners that leaves dataset.airport
InputEditedKeeping(all, n, value) == [all EXCEPT ![n] = Input(value, @.airport)]

\* the input listeners of the n-th input once the user has made its text value:
\* delete dataset.airport
InputEdited(all, n, value) == [all EXCEPT ![n] = Input(value, Undefined)]

\* an input event on the n-th input
InputEvent(n, value) ==
    /\ StopsShown
    /\ WriteInputs(InputEdited(AllInputs, n, value))
    /\ notified' = << >>
    /\ UNCHANGED << addBtnDisabled, mapReady, drawn, flightInfo, stopsView, rendered, landmarks, routeAirports, filtered >>
    /\ PageFrame

\* selectAirport and the onSelect passed to setupAutocomplete, for one of the
\* suggestions of the n-th input
SuggestionSelected(n, airport) ==
    /\ StopsShown
    /\ WriteInputs([AllInputs EXCEPT ![n] = Input(LabelOf(airport), JSONstringify(airport))])
    /\ notified' = << >>
    /\ UNCHANGED << addBtnDisabled, mapReady, drawn, flightInfo, stopsView, rendered, landmarks, routeAirports, filtered >>
    /\ PageFrame

\* swapInputs of the a-th and the b-th group
swapInputs(all, a, b) ==
    [all EXCEPT ![a] = Input(all[b].value, all[b].airport),
                ![b] = Input(all[a].value, all[a].airport)]

\* the drop listener of the b-th group while the a-th is dragged
Drop(a, b) ==
    /\ StopsShown
    /\ a # b
    /\ WriteInputs(swapInputs(AllInputs, a, b))
    /\ notified' = << >>
    /\ UNCHANGED << addBtnDisabled, mapReady, drawn, flightInfo, stopsView, rendered, landmarks, routeAirports, filtered >>
    /\ PageFrame

\* the callback of loadLandmarks().then in main
LandmarksLoaded ==
    /\ landmarks = << >>
    /\ landmarks' = PageLandmarks
    /\ notified' = << >>
    /\ UNCHANGED << originInput, destInput, layoverInputs, addBtnDisabled, mapReady, drawn, flightInfo, stopsView, rendered, routeAirports, filtered >>
    /\ PageFrame

\* what handleTrackFlight has done when it returns early
Rejected(origin, dest, layovers, toasts) ==
    [origin |-> origin, dest |-> dest, layovers |-> layovers, toasts |-> toasts,
     rejected |-> TRUE, route |-> << >>]

\* a variant of the validation that lets every route pass
TrackRouteUnchecked(o, d, l, route) ==
    [origin |-> o.input, dest |-> d.input, layovers |-> l.inputs,
     toasts |-> o.toasts \o d.toasts \o l.toasts, rejected |-> FALSE, route |-> route]

\* handleTrackFlight from the validation of routeAirports on
TrackRoute(o, d, l, route) ==
    IF FirstDuplicate(route) # 0
    THEN Rejected(o.input, d.input, l.inputs,
                  o.toasts \o d.toasts \o l.toasts
                  \o << Toast(<< "Invalid", "Route" >>, "error") >>)
    ELSE [origin |-> o.input, dest |-> d.input, layovers |-> l.inputs,
          toasts |-> o.toasts \o d.toasts \o l.toasts, rejected |-> FALSE, route |-> route]

\* handleTrackFlight with the origin resolved as o, the destination as d and the
\* layovers as l
TrackResolved(o, d, l, dest, layovers) ==
    IF o.unknown THEN Rejected(o.input, dest, layovers, o.toasts)
    ELSE IF d.unknown THEN Rejected(o.input, d.input, layovers, o.toasts \o d.toasts)
    ELSE IF o.found = Null \/ d.found = Null
    THEN Rejected(o.input, d.input, layovers,
                  o.toasts \o d.toasts \o << Toast(<< "Please", "select" >>, "error") >>)
    ELSE IF l.threw
    THEN Rejected(o.input, d.input, l.inputs, o.toasts \o d.toasts \o l.toasts)
    ELSE TrackRoute(o, d, l, << o.found >> \o l.layovers \o << d.found >>)

\* handleTrackFlight as far as its last return: the inputs as they are left, the
\* toasts shown, whether the request is rejected, and routeAirports
TrackOutcome(origin, dest, layovers, airports) ==
    TrackResolved(Resolve(origin, airports, "origin"),
                  Resolve(dest, airports, "destination"),
                  getLayovers(layovers, airports), dest, layovers)

\* what handleTrackFlight leaves of the inputs and shows as toasts
TrackInputs(t) ==
    /\ originInput' = t.origin
    /\ destInput' = t.dest
    /\ layoverInputs' = t.layovers
    /\ notified' = t.toasts

\* renderLandmarks(filterLandmarksInCorridor(landmarks, routeAirports))
TrackLandmarks(route, result) ==
    /\ routeAirports' = route
    /\ filtered' = result
    /\ rendered' = IF mapReady THEN result ELSE rendered

\* handleTrackFlight with what it has done by its last return: drawPath,
\* updateFlightInfo, collapseStops, filterLandmarksInCorridor and renderLandmarks
Tracked(t) ==
    /\ TrackInputs(t)
    /\ IF t.rejected
       THEN UNCHANGED << drawn, flightInfo, stopsView, routeAirports, filtered, rendered >>
       ELSE /\ drawn' = IF mapReady THEN t.route ELSE drawn
            /\ flightInfo' = IF mapReady THEN t.route ELSE flightInfo
            /\ stopsView' = "exiting"
            /\ IF Len(landmarks) > 0
               THEN TrackLandmarks(t.route, filterLandmarksInCorridor(landmarks, t.route,
                                                                       TIER_RADIUS_KM))
               ELSE UNCHANGED << routeAirports, filtered, rendered >>

\* the click listener of 'track-btn'
TrackClick ==
    /\ StopsShown
    /\ Tracked(TrackOutcome(originInput, destInput, layoverInputs, PageAirports))
    /\ UNCHANGED << addBtnDisabled, mapReady, landmarks >>
    /\ PageFrame

\* the timeout of animateExit in collapseStops
CollapseTimeout ==
    /\ stopsView = "exiting"
    /\ stopsView' = "collapsed"
    /\ notified' = << >>
    /\ UNCHANGED << originInput, destInput, layoverInputs, addBtnDisabled, mapReady, drawn, flightInfo, rendered, landmarks, routeAirports, filtered >>
    /\ PageFrame

\* expandStops, the click listener of 'collapsed-stops'
ExpandClick ==
    /\ stopsView = "collapsed"
    /\ stopsView' = "entering"
    /\ notified' = << >>
    /\ UNCHANGED << originInput, destInput, layoverInputs, addBtnDisabled, mapReady, drawn, flightInfo, rendered, landmarks, routeAirports, filtered >>
    /\ PageFrame

\* the timeout of animateExit in expandStops
ExpandTimeout ==
    /\ stopsView = "entering"
    /\ stopsView' = "inputs"
    /\ flightInfo' = << >>
    /\ notified' = << >>
    /\ UNCHANGED << originInput, destInput, layoverInputs, addBtnDisabled, mapReady, drawn, rendered, landmarks, routeAirports, filtered >>
    /\ PageFrame

\* stops are added and removed, and their inputs typed into
NextLayovers ==
    \/ AddLayoverClick
    \/ \E n \in DOMAIN layoverInputs : RemoveLayoverClick(n)
    \/ \E n \in DOMAIN layoverInputs, value \in LayoverTyped : InputEvent(n + 2, value)

SpecLayovers == InitPage /\ [][NextLayovers]_vars

\* the page with up to MaxPageLayovers layovers
NextPage ==
    \/ Len(layoverInputs) < MaxPageLayovers /\ AddLayoverClick
    \/ \E n \in DOMAIN layoverInputs : RemoveLayoverClick(n)
    \/ \E n \in DOMAIN AllInputs, value \in PageTyped : InputEvent(n, value)
    \/ \E n \in DOMAIN AllInputs, k \in DOMAIN PageAirports : SuggestionSelected(n, PageAirports[k])
    \/ \E a \in DOMAIN AllInputs, b \in DOMAIN AllInputs : Drop(a, b)
    \/ LandmarksLoaded
    \/ TrackClick
    \/ CollapseTimeout
    \/ ExpandClick
    \/ ExpandTimeout

SpecPage == InitPage /\ [][NextPage]_vars

----------------------------------------------------------------------------
(* loadLandmarks called again and again, by callers that may or may not    *)
(* wait for the call before.  A call is [pc, fetched, outcome, result,     *)
(* after]: pc is "fetch" while it awaits fetch, "text" while it awaits     *)
(* response.text(), "done" once its promise is resolved; after is the set  *)
(* of the calls that had resolved with the parsed list when it was made.   *)

InitLoads ==
    /\ landmarksCache = Null
    /\ loads = << >>
    /\ pc = "loading"
    /\ TIER_RADIUS_KM = SourceTierRadius
    /\ inside = FALSE
    /\ NoFilter /\ NoPath /\ NoBox /\ NoSteps /\ NoFlight /\ NoList /\ NoPage /\ NoSide

LoadFrame ==
    UNCHANGED << filterVars, pathVars, boxVars, inside, stepVars, flightVars, listVars,
                 pageVars, sideVars, pc >>

\* the calls that have resolved with the parsed list
ResolvedParsed ==
    { i \in DOMAIN loads : loads[i].pc = "done" /\ loads[i].outcome \in { "parsed", "cached" } }

\* loadLandmarks as far as its first await
LoadStarts(cache, after) ==
    IF cache # Null
    THEN [pc |-> "done", fetched |-> FALSE, outcome |-> "cached", result |-> cache,
          after |-> after]
    ELSE [pc |-> "fetch", fetched |-> TRUE, outcome |-> "pending", result |-> Null,
          after |-> after]

\* a call of loadLandmarks
LoadCall ==
    /\ Len(loads) < MaxLoads
    /\ loads' = Append(loads, LoadStarts(landmarksCache, ResolvedParsed))
    /\ UNCHANGED landmarksCache
    /\ LoadFrame

\* the promise of fetch is fulfilled
FetchFulfilled(i) ==
    /\ loads[i].pc = "fetch"
    /\ loads' = [loads EXCEPT ![i].pc = "text"]
    /\ UNCHANGED landmarksCache
    /\ LoadFrame

\* the promise of fetch, or that of response.text(), is rejected: the catch
\* block returns a new empty array
LoadRejected(i) ==
    /\ loads[i].pc \in { "fetch", "text" }
    /\ loads' = [loads EXCEPT ![i].pc = "done", ![i].outcome = "failed",
                              ![i].result = Array(i, << >>)]
    /\ UNCHANGED landmarksCache
    /\ LoadFrame

\* the promise of response.text() is fulfilled with text
TextFulfilled(i, text) ==
    /\ loads[i].pc = "text"
    /\ landmarksCache' = Array(i, parseLandmarkCSV(text))
    /\ loads' = [loads EXCEPT ![i].pc = "done", ![i].outcome = "parsed",
                              ![i].result = landmarksCache']
    /\ LoadFrame

NextLoads ==
    \/ LoadCall
    \/ \E i \in DOMAIN loads : FetchFulfilled(i)
    \/ \E i \in DOMAIN loads : LoadRejected(i)
    \/ \E i \in DOMAIN loads, text \in CsvTexts : TextFulfilled(i, text)

SpecLoads == InitLoads /\ [][NextLoads]_vars

----------------------------------------------------------------------------
(* layers/landmarks.js: the info windows of the markers renderLandmarks    *)
(* made, their hover listeners and the timers these start.                 *)

InitHover ==
    /\ NoHover
    /\ pc = "hover"
    /\ TIER_RADIUS_KM = SourceTierRadius
    /\ NoFilter /\ NoPath /\ NoBox /\ inside = FALSE /\ NoSteps /\ NoFlight /\ NoList
    /\ NoPage /\ NoCache /\ NoExtent

HoverFrame ==
    UNCHANGED << filterVars, pathVars, boxVars, inside, stepVars, flightVars, listVars,
                 pageVars, cacheVars, extentVars, pc >>

\* what a timer will do: close the window it was made for, only while that window
\* is currentOpenInfoWindow when it was made by a marker's mouseout; window 0 is a
\* window of an earlier rendering
Timer(w, conditional) == [window |-> w, conditional |-> conditional, pending |-> TRUE]

\* a timer that has fired or has been cleared
Gone == [window |-> 0, conditional |-> FALSE, pending |-> FALSE]

\* clearTimeout(id): nothing for null and for a timer that is gone
clearTimeout(ts, id) == IF id \in DOMAIN ts THEN [ts EXCEPT ![id] = Gone] ELSE ts

\* the mouse after the windows but those of open are closed: a popup that is
\* closed is no longer under it
PointerOver(open) ==
    IF pointer.on = "popup" /\ pointer.w \notin open THEN OnMap ELSE pointer

\* the listener of 'mouseover' of the marker of window w
MarkerMouseover(w) ==
    /\ pointer = OnMap
    /\ timers' = clearTimeout(timers, closeTimeout)
    /\ closeTimeout' = 0
    /\ openWindows' = (openWindows \ { currentOpenInfoWindow }) \cup { w }
    /\ domreadyDue' = (domreadyDue \ { currentOpenInfoWindow }) \cup { w }
    /\ currentOpenInfoWindow' = w
    /\ pointer' = OnMarker(w)
    /\ UNCHANGED popupListeners
    /\ HoverFrame

\* the timer of 'mouseout': it closes its window while it is currentOpenInfoWindow
MouseoutTimer(w) == Timer(w, TRUE)

\* the listener of 'mouseout' of the marker of window w, with movingTowardPopup
MarkerMouseout(w, movingTowardPopup) ==
    /\ pointer = OnMarker(w)
    /\ pointer' = OnMap
    /\ IF movingTowardPopup
       THEN /\ Len(timers) < MaxTimers
            /\ timers' = Append(timers, MouseoutTimer(w))
            /\ closeTimeout' = Len(timers')
            /\ UNCHANGED << openWindows, currentOpenInfoWindow, domreadyDue >>
       ELSE /\ openWindows' = IF currentOpenInfoWindow = w THEN openWindows \ { w }
                                                            ELSE openWindows
            /\ domreadyDue' = domreadyDue \cap openWindows'
            /\ currentOpenInfoWindow' = IF currentOpenInfoWindow = w
                                        THEN 0 ELSE currentOpenInfoWindow
            /\ UNCHANGED << timers, closeTimeout >>
    /\ UNCHANGED popupListeners
    /\ HoverFrame

\* the listener of 'domready' of window w: popup is the first '.landmark-popup' of
\* the document, the popup of one of the windows that are open; it is given one
\* more listener of 'mouseenter' and one more of 'mouseleave'
DomReady(w, popup) ==
    /\ w \in domreadyDue
    /\ popup \in openWindows
    /\ Len(popupListeners[popup]) < MaxListeners
    /\ popupListeners' = [popupListeners EXCEPT ![popup] = Append(@, w)]
    /\ domreadyDue' = domreadyDue \ { w }
    /\ UNCHANGED << openWindows, currentOpenInfoWindow, closeTimeout, timers, pointer >>
    /\ HoverFrame

\* the mouse enters the popup of window popup: each listener of 'mouseenter' it has
\* been given clears closeTimeout
PopupMouseenter(popup) ==
    /\ pointer = OnMap
    /\ popup \in openWindows
    /\ pointer' = OnPopup(popup)
    /\ IF popupListeners[popup] # << >>
       THEN timers' = clearTimeout(timers, closeTimeout) /\ closeTimeout' = 0
       ELSE UNCHANGED << timers, closeTimeout >>
    /\ UNCHANGED << openWindows, currentOpenInfoWindow, popupListeners, domreadyDue >>
    /\ HoverFrame

\* the timers the listeners of 'mouseleave' start, one each, in the order the
\* listeners were added
MouseleaveTimers(listeners) == [i \in 1..Len(listeners) |-> Timer(listeners[i], FALSE)]

\* the mouse leaves the popup of window popup: each listener of 'mouseleave' it has
\* been given starts a timer and assigns it to closeTimeout
PopupMouseleave(popup) ==
    /\ pointer = OnPopup(popup)
    /\ Len(timers) + Len(popupListeners[popup]) <= MaxTimers
    /\ pointer' = OnMap
    /\ timers' = timers \o MouseleaveTimers(popupListeners[popup])
    /\ closeTimeout' = IF popupListeners[popup] # << >> THEN Len(timers') ELSE closeTimeout
    /\ UNCHANGED << openWindows, currentOpenInfoWindow, popupListeners, domreadyDue >>
    /\ HoverFrame

\* the callback of the timer runs and closes the window of the timer
TimerCloses(w) ==
    /\ openWindows' = openWindows \ { w }
    /\ domreadyDue' = domreadyDue \ { w }
    /\ currentOpenInfoWindow' = 0
    /\ pointer' = PointerOver(openWindows')

\* timer id fires 300 ms after it was made, so after the timers made before it
TimerFires(id) ==
    /\ id \in DOMAIN timers
    /\ timers[id].pending
    /\ \A earlier \in 1..(id - 1) : ~timers[earlier].pending
    /\ timers' = [timers EXCEPT ![id] = Gone]
    /\ IF timers[id].conditional
       THEN IF timers[id].window # 0 /\ currentOpenInfoWindow = timers[id].window
            THEN TimerCloses(timers[id].window)
            ELSE UNCHANGED << openWindows, domreadyDue, currentOpenInfoWindow, pointer >>
       ELSE TimerCloses(timers[id].window)
    /\ UNCHANGED << closeTimeout, popupListeners >>
    /\ HoverFrame

\* the timers after clearLandmarkMarkers: the windows they were made for are no
\* longer in landmarkInfoWindows
TimersOfOldWindows ==
    [id \in DOMAIN timers |-> IF timers[id].pending THEN [timers[id] EXCEPT !.window = 0]
                                                   ELSE Gone]

\* renderLandmarks: clearLandmarkMarkers, then new markers and info windows
RenderLandmarks ==
    /\ openWindows' = {}
    /\ currentOpenInfoWindow' = 0
    /\ popupListeners' = [w \in Windows |-> << >>]
    /\ domreadyDue' = {}
    /\ pointer' = OnMap
    /\ timers' = TimersOfOldWindows
    /\ UNCHANGED closeTimeout
    /\ HoverFrame

NextHover ==
    \/ \E w \in Windows : MarkerMouseover(w)
    \/ \E w \in Windows, movingTowardPopup \in BOOLEAN : MarkerMouseout(w, movingTowardPopup)
    \/ \E w \in Windows, popup \in Windows : DomReady(w, popup)
    \/ \E popup \in Windows : PopupMouseenter(popup)
    \/ \E popup \in Windows : PopupMouseleave(popup)
    \/ \E id \in 1..MaxTimers : TimerFires(id)
    \/ RenderLandmarks

SpecHover == InitHover /\ [][NextHover]_vars

----------------------------------------------------------------------------
(* The vocabulary of the properties.                                       *)

\* lm is among the landmarks returned
Returned(lm) == \E j \in 1..Len(filtered) : filtered[j] = lm

\* lm is among the landmarks passed
Passed(lm) == \E i \in 1..Len(landmarks) : landmarks[i] = lm

\* the box filterLandmarksInCorridor makes for route under table
CorridorBox(route, table) == createBoundingBox(route, MaxRadiusKm(table) + 50)

\* the distance of lm from the route, in metres
RouteDistance(lm, route) == getDistanceFromPath(PointOf(lm), MapPoints(route))

\* p is behind the origin: its bearing from the first waypoint is more than 90
\* degrees off the first leg's initial bearing
BehindOrigin(p, route) ==
    /\ Len(route) >= 2
    /\ route[1] # route[2] /\ p # route[1]
    /\ Abs(normalizeAngle(bearing(route[1], p) - bearing(route[1], route[2]))) > HALF_PI

\* p is beyond the destination: its bearing from the last waypoint is less than 90
\* degrees off the last leg's bearing
BeyondDestination(p, route) ==
    /\ Len(route) >= 2
    /\ route[Len(route) - 1] # route[Len(route)] /\ p # route[Len(route)]
    /\ Abs(normalizeAngle(bearing(route[Len(route)], p)
                          - bearing(route[Len(route) - 1], route[Len(route)]))) < HALF_PI

\* the segments of route: the indices of their first waypoints
Segments(route) == 1..(Len(route) - 1)

----------------------------------------------------------------------------
(* The properties of filterLandmarksInCorridor called once.                *)

\* C1: the landmarks returned are exactly the landmarks passed that are inside the
\* box made with the largest radius plus 50 km and whose distance from the route is
\* at most the radius of their tier.
C1_ExactlyBoxAndRadius ==
    pc = "done" /\ calls # << >> =>
        /\ \A j \in 1..Len(filtered) : Passed(filtered[j])
        /\ \A i \in 1..Len(landmarks) :
               Returned(landmarks[i]) <=>
                   /\ isWithinBoundingBox(PointOf(landmarks[i]),
                                          CorridorBox(routeAirports, TIER_RADIUS_KM))
                   /\ RouteDistance(landmarks[i], routeAirports)
                          <= TIER_RADIUS_KM[landmarks[i].tier] * 1000

\* C1: a second-tier landmark farther than the source's 32 km is returned under the
\* table that gives its tier 60 km.
C1_Witness ==
    /\ pc = "done" /\ calls # << >>
    /\ \E j \in 1..Len(filtered) :
           /\ filtered[j].tier = 2
           /\ RouteDistance(filtered[j], routeAirports) > 32 * 1000
           /\ RouteDistance(filtered[j], routeAirports) <= TIER_RADIUS_KM[2] * 1000

C5_BoxKeepsEligible ==
    pc = "done" /\ calls # << >> =>
        \A i \in 1..Len(landmarks) :
            RouteDistance(landmarks[i], routeAirports)
                    <= TIER_RADIUS_KM[landmarks[i].tier] * 1000
                => isWithinBoundingBox(PointOf(landmarks[i]),
                                       CorridorBox(routeAirports, TIER_RADIUS_KM))

----------------------------------------------------------------------------
(* The properties of lists of several landmarks.                           *)

RECURSIVE IsSubsequence(_, _)
\* s is t with elements left out
IsSubsequence(s, t) ==
    IF s = << >> THEN TRUE
    ELSE IF t = << >> THEN FALSE
    ELSE IF Head(s) = Head(t) THEN IsSubsequence(Tail(s), Tail(t))
    ELSE IsSubsequence(s, Tail(t))

\* C2: the list returned is the list passed with elements left out: every element
\* is one of those passed, none comes more often, and the order is kept.
C2_Subsequence ==
    pc = "done" /\ calls # << >> => IsSubsequence(filtered, landmarks)

\* C2: two different landmarks are returned.
C2_Witness ==
    /\ pc = "done" /\ calls # << >>
    /\ Len(filtered) >= 2
    /\ filtered[1] # filtered[2]

----------------------------------------------------------------------------
(* The properties of getDistanceFromPath.                                  *)

\* getDistanceFromPath has returned
DistanceTaken == pc = "done" /\ calls = << >> /\ routeAirports = << >>

LiveSegments == { k \in Segments(pathPoints) : ~SegmentSkipped(point, pathPoints, k) }

\* C6: the distance returned is the least pointToSegmentDistance over the segments
\* not skipped, and it is Infinity exactly when every segment is skipped or there
\* is none.
C6_MinimumOverLiveSegments ==
    DistanceTaken =>
        /\ distance = Infinity <=> LiveSegments = {}
        /\ LiveSegments # {} =>
               /\ \E k \in LiveSegments :
                      distance = pointToSegmentDistance(point, pathPoints[k],
                                                        pathPoints[k + 1])
               /\ \A k \in LiveSegments :
                      distance <= pointToSegmentDistance(point, pathPoints[k],
                                                         pathPoints[k + 1])

\* C6: a skipped segment is nearer to the point than the distance returned.
C6_Witness ==
    /\ DistanceTaken
    /\ distance < Infinity
    /\ \E k \in Segments(pathPoints) \ LiveSegments :
           pointToSegmentDistance(point, pathPoints[k], pathPoints[k + 1]) < distance

----------------------------------------------------------------------------
(* The properties of the tier table, of the box and of the points on the   *)
(* route.                                                                  *)

\* the kilometres a radius is raised by
RaiseKm == 30

\* table with the radii of the tiers in S raised
RaisedIn(table, S) ==
    [t \in DOMAIN table |-> IF t \in S THEN table[t] + RaiseKm ELSE table[t]]

\* table with one or more radii raised
RaisedTables(table) == { RaisedIn(table, S) : S \in (SUBSET Tiers) \ { {} } }

\* lm is returned for the list and the route passed under table
ReturnedUnder(lm, table) ==
    LET result == filterLandmarksInCorridor(landmarks, routeAirports, table)
    IN  \E j \in 1..Len(result) : result[j] = lm

\* C7: a landmark returned is returned under every table with radii raised.
C7_Monotone ==
    pc = "done" /\ calls # << >> =>
        \A table \in RaisedTables(TIER_RADIUS_KM) :
            \A j \in 1..Len(filtered) : ReturnedUnder(filtered[j], table)

\* C7: a landmark not returned is returned once the radius of its tier is raised.
C7_Witness ==
    /\ pc = "done" /\ calls # << >>
    /\ \E i \in 1..Len(landmarks) :
           /\ ~Returned(landmarks[i])
           /\ ReturnedUnder(landmarks[i],
                            RaisedIn(TIER_RADIUS_KM, {landmarks[i].tier}))

\* createBoundingBox has returned
BoxTaken == pc = "done" /\ calls = << >> /\ routeAirports # << >>

\* C8: every waypoint of the route is inside the box made for the route.
C8_WaypointsInside ==
    BoxTaken =>
        \A i \in 1..Len(routeAirports) : isWithinBoundingBox(routeAirports[i], bounds)

\* C8: the box of a route of two waypoints at the pole, with a buffer.
C8_Witness ==
    /\ BoxTaken
    /\ bufferKm > 0
    /\ Len(routeAirports) >= 2 /\ routeAirports[1] # routeAirports[2]
    /\ \A i \in 1..Len(routeAirports) : routeAirports[i].lat = 90 * U
    /\ bounds.minLon <= -LonCap /\ bounds.maxLon >= LonCap

\* a difference of longitudes, taken the short way round
Wrap(d) ==
    IF d > 180 * U THEN d - 360 * U
    ELSE IF d <= -(180 * U) THEN d + 360 * U
    ELSE d

\* p is on the equator strictly between s and e
BetweenOnEquator(p, s, e) ==
    /\ s.lat = 0 /\ e.lat = 0 /\ p.lat = 0
    /\ LET d == Wrap(e.lon - s.lon)
           dp == Wrap(p.lon - s.lon)
       IN  /\ Abs(d) < 180 * U
           /\ (0 < dp /\ dp < d) \/ (d < dp /\ dp < 0)

\* p is strictly between s and e on the meridians through them over the north pole
BetweenOverPole(p, s, e) ==
    /\ Abs(e.lon - s.lon) = 180 * U
    /\ s.lat + e.lat > 0
    /\ p.lat < 90 * U
    /\ (p.lon = s.lon /\ p.lat > s.lat) \/ (p.lon = e.lon /\ p.lat > e.lat)

\* p is on the great-circle segment from s to e, strictly between them
OnSegment(p, s, e) == BetweenOnEquator(p, s, e) \/ BetweenOverPole(p, s, e)

\* C9 as stated: a landmark on a segment of the route strictly between its
\* waypoints has distance 0, within 1 km, and is returned.
C9_OnRouteReturned ==
    pc = "done" /\ calls # << >> =>
        \A i \in 1..Len(landmarks) :
            (\E k \in Segments(routeAirports) :
                 OnSegment(PointOf(landmarks[i]), routeAirports[k], routeAirports[k + 1]))
                => /\ RouteDistance(landmarks[i], routeAirports) <= 1000
                   /\ Returned(landmarks[i])

----------------------------------------------------------------------------
(* The properties of a session.                                            *)

\* calls i and j were passed the same list and the same route
SameInputs(i, j) ==
    /\ calls[i].landmarks = calls[j].landmarks
    /\ calls[i].routeAirports = calls[j].routeAirports

----------------------------------------------------------------------------
(* The inputs of filterLandmarksInCorridor across the call.                *)

----------------------------------------------------------------------------
(* Landmarks whose coordinates are NaN.                                    *)

\* lm has a latitude and a longitude
Finite(lm) == lm.lat # NaN /\ lm.lon # NaN

\* C12: a landmark whose lat or lon is NaN is never returned, and the call returns
\* for the other landmarks what it returns when the list holds them alone.
C12_NaNNeverReturned ==
    pc = "done"
    => /\ \A j \in 1..Len(filtered) : Finite(filtered[j])
       /\ filtered = filterLandmarksInCorridor(SelectSeq(landmarks, Finite),
                                               routeAirports, TIER_RADIUS_KM)

\* C12: a list whose first landmark has a NaN coordinate has been filtered, and a
\* landmark after it is returned.
C12_Witness ==
    /\ pc = "done"
    /\ Len(landmarks) = 2
    /\ ~Finite(landmarks[1])
    /\ filtered = << landmarks[2] >>

----------------------------------------------------------------------------
(* Termination.                                                            *)

\* no pair of a landmark and a segment has had the loop body run for it twice
EvaluatedOnce == evaluatedAgain = {}

\* normalizeAngle is passed the difference of two bearings: within [-2 PI, 2 PI]
AngleInRange == pc = "while" => angleAt >= -2 * PI /\ angleAt <= 2 * PI

\* the steps normalizeAngle has yet to take: an iteration of a while loop if the
\* angle is outside [-PI, PI], and its return
WhileRank == IF Abs(angleAt) > PI THEN 2 ELSE 1

\* the calls of normalizeAngle by the loop body, last to first
StageRank ==
    CASE stageAt = "origin" -> 4
      [] stageAt = "destination" -> 3
      [] stageAt = "start" -> 1
      [] stageAt = "end" -> 0
      [] OTHER -> 0

\* a bound of the steps the loop body has yet to take for the segment it is at
BodyRank ==
    CASE pc = "while" -> 3 * StageRank + WhileRank
      [] pc = "segment" -> 6
      [] pc = "continue" -> 1
      [] OTHER -> 0

\* a bound of the steps the loop has yet to take for the landmark it is at: 16 for
\* every segment to come, and the rest of the segment it is at
LoopRank ==
    IF segAt > StepLast THEN 0
    ELSE IF pc = "loop" THEN 16 * (StepLast - segAt + 1)
    ELSE 16 * (StepLast - segAt) + BodyRank

\* a bound of the steps the second filter has yet to take for a landmark
LandmarkRank == 16 * Max(StepLast, 0) + 3

\* a bound of the steps the call has yet to take
Rank ==
    CASE pc = "call" -> Len(landmarks) * LandmarkRank + 2
      [] pc = "filter" -> (Len(preFiltered) - lmAt + 1) * LandmarkRank + 1
      [] pc = "done" -> 0
      [] OTHER -> (Len(preFiltered) - lmAt) * LandmarkRank + 2 + LoopRank

\* the condition of some step holds
CanStep ==
    \/ pc \in {"call", "continue", "segment"}
    \/ pc = "filter" /\ (lmAt <= Len(preFiltered) \/ lmAt > Len(preFiltered))
    \/ pc = "loop" /\ (segAt > StepLast \/ segAt <= StepLast)
    \/ pc = "while" /\ (angleAt > PI \/ (angleAt <= PI /\ angleAt < -PI))
    \/ Normalized /\ stageAt \in {"origin", "destination", "start", "end"}

\* C13: filterLandmarksInCorridor returns for every list and every route: the loop
\* body runs at most once for a landmark and a segment, normalizeAngle is passed an
\* angle within [-2 PI, 2 PI], and until the call has returned a step can be taken
\* and every step lowers a bound, never negative, of the steps yet to take.
C13_Terminates ==
    /\ [](EvaluatedOnce /\ AngleInRange /\ Rank >= 0)
    /\ [](pc # "done" => CanStep)
    /\ [][Rank' < Rank]_vars

\* C13: the call has returned after the loop body ran for two landmarks and each of
\* the three segments of a route.
C13_Witness ==
    /\ pc = "done"
    /\ Len(routeAirports) = 4
    /\ Len(preFiltered) = 2
    /\ Cardinality(evaluated) = 6

----------------------------------------------------------------------------
(* The estimate of calculateFlightDuration.                                *)

\* the initial bearing of a leg is due east, due west
DueEast(leg) == FlightBearing(leg.origin, leg.dest) = HALF_PI

DueWest(leg) == FlightBearing(leg.origin, leg.dest) = PI + HALF_PI

\* C14: the duration of a leg due east is strictly shorter than the duration of
\* every leg due west of the same distance, and the effective speed of a leg is
\* never below 800 km/h.
C14_EastboundFaster ==
    pc = "done"
    => /\ EffectiveSpeed(FlightBearing(flight.origin, flight.dest)) >= 800 * 1000
       /\ DueEast(flight)
          => \A w \in FlightLegs :
                 DueWest(w) /\ w.distanceMeters = flight.distanceMeters
                 => flightHours < calculateFlightDuration(w.origin, w.dest,
                                                          w.distanceMeters)

\* C14: the duration of a leg due east has been estimated, and there is a leg due
\* west of the same distance; and the duration of a leg due west at 800 km/h.
C14_Witness ==
    /\ pc = "done"
    /\ DueEast(flight)
    /\ flight.origin.lat = flight.dest.lat
    /\ flight.distanceMeters > 1000
    /\ \E w \in FlightLegs :
           /\ DueWest(w) /\ w.distanceMeters = flight.distanceMeters
           /\ EffectiveSpeed(FlightBearing(w.origin, w.dest)) = 800 * 1000

----------------------------------------------------------------------------
(* The selection of an autocomplete field.                                 *)

\* highlightedIndex is -1 or the index of a match
HighlightInRange ==
    highlightedIndex >= -1 /\ highlightedIndex <= Len(currentMatches) - 1

\* selectAirport was never called with undefined
SelectedDefined == \A n \in DOMAIN selected : selected[n] # Undefined

\* C15: Enter or Tab, heard while the list is open and not empty, selects the match
\* highlighted if one is and else the first match; highlightedIndex is always within
\* -1..Len(currentMatches)-1, and the airport selected is never undefined.
C15_SelectsHighlightedOrFirst ==
    /\ [](HighlightInRange /\ SelectedDefined)
    /\ [][KeyEnter \/ KeyTab
            => /\ active /\ Len(currentMatches) > 0
               /\ selected' = << IF highlightedIndex >= 0
                                 THEN currentMatches[highlightedIndex + 1]
                                 ELSE currentMatches[1] >>]_vars

\* C15: the last of ten matches was selected after it had been highlighted, and a
\* list of one match has since been opened.
C15_Witness ==
    /\ selected = << ListAirports[9] >>
    /\ Len(currentMatches) = 1
    /\ active
    /\ highlightedIndex = 0

----------------------------------------------------------------------------
(* The segments between the first and the last.                            *)

\* the segments of the path that are neither its first nor its last
MiddleSegments == Segments(pathPoints) \ { 1, Len(pathPoints) - 1 }

\* C16: only the first segment and the last can be skipped; every segment between
\* them is a candidate, so the distance is no more than the distance from it, and
\* the distance from a path of three legs or more is finite for every point.
C16_MiddleSegmentsCount ==
    DistanceTaken
    => /\ \A k \in Segments(pathPoints) :
              SegmentSkipped(point, pathPoints, k) => k \in { 1, Len(pathPoints) - 1 }
       /\ \A k \in MiddleSegments :
              distance <= pointToSegmentDistance(point, pathPoints[k], pathPoints[k + 1])
       /\ Len(pathPoints) >= 4 => distance < Infinity

\* C16: the distance of a point from a path of three legs is taken, the point is
\* behind the start of the first leg and ahead of the end of the last, and the
\* distance is the distance from the leg between them.
C16_Witness ==
    /\ DistanceTaken
    /\ Len(pathPoints) = 4
    /\ SegmentSkipped(point, pathPoints, 1)
    /\ SegmentSkipped(point, pathPoints, 3)
    /\ distance = pointToSegmentDistance(point, pathPoints[2], pathPoints[3])
    /\ distance > 0

----------------------------------------------------------------------------
(* The three cases of pointToSegmentDistance.                              *)

\* the angle between two bearings: their difference taken the short way round
AngleBetween(b1, b2) == Min(Abs(b1 - b2), 2 * PI - Abs(b1 - b2))

\* the angle at s between the directions to e and to p
AngleAt(s, e, p) == AngleBetween(bearing(s, e), bearing(s, p))

\* the cross-track distance of p from the great circle through s and e
CrossTrackFrom(p, s, e) ==
    CrossTrack(OverR(haversineDistance(s, p)), bearing(s, p) - bearing(s, e))

\* pathPoints[1], pathPoints[2] is a segment of a metre or more
ProperSegment == haversineDistance(pathPoints[1], pathPoints[2]) >= 1

\* C17: for a segment that is not degenerate pointToSegmentDistance returns the
\* distance from start when the angle at start exceeds 90 degrees (also when the
\* angle at end does), else the distance from end when the angle at end exceeds 90
\* degrees, else the cross-track distance; and it never returns less than 0.
C17_ThreeCases ==
    DistanceTaken /\ ProperSegment
    => /\ distance >= 0
       /\ distance =
            IF AngleAt(pathPoints[1], pathPoints[2], point) > HALF_PI
            THEN haversineDistance(pathPoints[1], point)
            ELSE IF AngleAt(pathPoints[2], pathPoints[1], point) > HALF_PI
            THEN haversineDistance(pathPoints[2], point)
            ELSE CrossTrackFrom(point, pathPoints[1], pathPoints[2])

\* C17: the distance of a point is taken whose angles at start and at end both exceed
\* 90 degrees, and end is the nearer to it.
C17_Witness ==
    /\ DistanceTaken /\ ProperSegment
    /\ AngleAt(pathPoints[1], pathPoints[2], point) > HALF_PI
    /\ AngleAt(pathPoints[2], pathPoints[1], point) > HALF_PI
    /\ haversineDistance(pathPoints[2], point) < haversineDistance(pathPoints[1], point)
    /\ distance = haversineDistance(pathPoints[1], point)

----------------------------------------------------------------------------
(* Segments from a waypoint to itself.                                     *)

\* the segments of the path shorter than a metre
DegenerateSegments ==
    { k \in Segments(pathPoints) : haversineDistance(pathPoints[k], pathPoints[k + 1]) < 1 }

\* C18: a degenerate segment, be it the first or the last of the path, contributes
\* the distance of the point from its start: the distance from the path is no more.
C18_DegenerateContributes ==
    DistanceTaken
    => \A k \in DegenerateSegments : distance <= haversineDistance(pathPoints[k], point)

----------------------------------------------------------------------------
(* The test of isWithinBoundingBox.                                        *)

\* point is to the south, north, west or east of the box, in millionths of a degree
OutsideBox ==
    \/ point.lat * (F \div U) < bounds.minLat
    \/ point.lat * (F \div U) > bounds.maxLat
    \/ point.lon * (F \div U) < bounds.minLon
    \/ point.lon * (F \div U) > bounds.maxLon

\* point is on an edge of the box
OnEdge ==
    /\ ~OutsideBox
    /\ \/ point.lat * (F \div U) \in { bounds.minLat, bounds.maxLat }
       \/ point.lon * (F \div U) \in { bounds.minLon, bounds.maxLon }

\* the same place as point under the longitude 360 degrees to the east or west is
\* not outside the box
InsideWrapped ==
    \E turn \in { -360 * U, 360 * U } :
        /\ point.lat * (F \div U) >= bounds.minLat
        /\ point.lat * (F \div U) <= bounds.maxLat
        /\ (point.lon + turn) * (F \div U) >= bounds.minLon
        /\ (point.lon + turn) * (F \div U) <= bounds.maxLon

\* C19: isWithinBoundingBox is true exactly when the point is within the latitudes
\* and within the longitudes of the box, the edges included; the longitude is
\* compared as it is, with no wrap-around.
C19_InclusiveRange ==
    pc = "done" => /\ inside = ~OutsideBox
                   /\ OnEdge => inside
                   /\ OutsideBox /\ InsideWrapped => ~inside

\* C19: a point on a corner of the box has been found inside.
C19_Witness ==
    /\ pc = "done"
    /\ inside
    /\ point.lat * (F \div U) = bounds.maxLat
    /\ point.lon * (F \div U) = bounds.minLon
    /\ bounds.minLat < bounds.maxLat

----------------------------------------------------------------------------
(* The buffers of createBoundingBox.                                       *)

\* what the box adds to the waypoints' latitudes and longitudes on either side, in
\* millionths of a degree
NorthAdded == bounds.maxLat - MaxOf(Lats(routeAirports)) * (F \div U)

SouthAdded == MinOf(Lats(routeAirports)) * (F \div U) - bounds.minLat

EastAdded == bounds.maxLon - MaxOf(Lons(routeAirports)) * (F \div U)

WestAdded == MinOf(Lons(routeAirports)) * (F \div U) - bounds.minLon

\* the cosine of the latitude midway between the southernmost and the northernmost
\* waypoint
CosMeanLat == Cos(Half(toRad(MinOf(Lats(routeAirports)) + MaxOf(Lats(routeAirports)))))

\* d is bufferKm / 111 degrees, to a millionth
IsLatBuffer(d) == 111 * d <= bufferKm * F /\ bufferKm * F < 111 * (d + 1)

\* d is bufferKm / (111 * cos(mean latitude)) degrees: d times the cosine is
\* bufferKm / 111 to a few millionths; at a pole, where the cosine is 0 to the
\* millionth, d is beyond every longitude
IsLonBuffer(d) ==
    IF bufferKm = 0 THEN d = 0
    ELSE IF d >= LonCap THEN CosMeanLat * 1900 <= NorthAdded
    ELSE Abs(Mul(d, CosMeanLat) - NorthAdded) <= 4

\* C20: the box lies bufferKm / 111 degrees beyond the waypoints' latitudes and
\* bufferKm / (111 * cos(mean latitude)) degrees beyond their longitudes on either
\* side; 130 km add about 1.17 degrees of latitude; and the longitudes are widened
\* by no less than the latitudes.
C20_Buffers ==
    BoxTaken
    => /\ IsLatBuffer(NorthAdded) /\ SouthAdded = NorthAdded
       /\ IsLonBuffer(EastAdded) /\ WestAdded = EastAdded
       /\ bufferKm = 130 => NorthAdded >= 1170000 /\ NorthAdded < 1180000
       /\ EastAdded >= NorthAdded

\* C20: a box with a buffer of 130 km has been made for a route of two waypoints in
\* middle latitudes, and it adds more to the longitudes than to the latitudes.
C20_Witness ==
    /\ BoxTaken
    /\ bufferKm = 130
    /\ Len(routeAirports) = 2
    /\ MinOf(Lats(routeAirports)) < MaxOf(Lats(routeAirports))
    /\ MinOf(Lats(routeAirports)) = -3300
    /\ EastAdded > NorthAdded
    /\ EastAdded < 2 * NorthAdded

----------------------------------------------------------------------------
(* The stops of the page.                                                  *)

\* the toast of the add button at the limit
MaxStopsError == Toast(<< "Maximum", "stops" >>, "error")

\* C21: however stops are added and removed, there are never more than 8 layover
\* groups, that is never more than 10 stops with the origin and the destination;
\* a click on the add button while there are 8 adds no group and shows the error
\* toast; a click on it while there are fewer, as after a removal at the limit,
\* adds one group and shows no error; and the removal of one of 8 groups leaves
\* the add button enabled.
C21_AtMostTenStops ==
    /\ [](Len(layoverInputs) <= 8 /\ Len(AllInputs) <= 10)
    /\ [][AddLayoverClick /\ Len(layoverInputs) = 8
          => layoverInputs' = layoverInputs /\ notified' = << MaxStopsError >>]_vars
    /\ [][AddLayoverClick /\ Len(layoverInputs) < 8
          => Len(layoverInputs') = Len(layoverInputs) + 1 /\ notified' = << >>]_vars
    /\ [][Len(layoverInputs) = 8 /\ Len(layoverInputs') = 7 => ~addBtnDisabled']_vars

\* the add button has been clicked at the limit
C21_Witness ==
    /\ Len(layoverInputs) = 8
    /\ addBtnDisabled
    /\ notified = << MaxStopsError >>

\* the n-th input stores a selection
Stored(n) == AllInputs[n].airport # Undefined

\* C22: the origin, the destination and every layover input store a selection
\* (dataset.airport) only while their text is the label "<code> - <city or
\* name>" of the airport stored; whatever the inputs hold, an input event on one
\* of them leaves it with the text typed and without a stored selection, and
\* swapInputs exchanges the texts and the stored selections of two of them
\* together and leaves the other inputs as they are.
C22_NoStaleSelection ==
    /\ \A n \in DOMAIN AllInputs :
          Stored(n) => AllInputs[n].value = LabelOf(JSONparse(AllInputs[n].airport))
    /\ \A n \in DOMAIN AllInputs, value \in PageTyped :
          InputEdited(AllInputs, n, value)[n] = Input(value, Undefined)
    /\ \A a \in DOMAIN AllInputs : \A b \in DOMAIN AllInputs \ { a } :
          /\ swapInputs(AllInputs, a, b)[a] = AllInputs[b]
          /\ swapInputs(AllInputs, a, b)[b] = AllInputs[a]
          /\ \A n \in DOMAIN AllInputs \ { a, b } :
                swapInputs(AllInputs, a, b)[n] = AllInputs[n]

\* the origin and the destination store one airport each and show its label, and
\* the text of a layover is one the user has typed
C22_Witness ==
    /\ Len(layoverInputs) = 1
    /\ Stored(1) /\ Stored(2) /\ ~Stored(3)
    /\ originInput.value = LabelOf(PageAirports[2])
    /\ destInput.value = LabelOf(PageAirports[1])
    /\ layoverInputs[1].value = << "x", "x" >>

\* the handler that ran last showed an error toast
ErrorShown == \E n \in DOMAIN notified : notified[n].type = "error"

\* no two airports of the route that follow one another have the same code
NoConsecutiveDuplicate(route) ==
    \A i \in 1..(Len(route) - 1) : route[i].code # route[i + 1].code

\* the toast handleTrackFlight rejects a request with
RejectionToasts ==
    { Toast(<< "Unknown", "origin" >>, "error"), Toast(<< "Unknown", "destination" >>, "error"),
      Toast(<< "Unknown", "layover" >>, "error"), Toast(<< "Please", "select" >>, "error"),
      Toast(<< "Invalid", "Route" >>, "error") }

\* handleTrackFlight has just rejected a request
TrackRejected == notified # << >> /\ notified[Len(notified)] \in RejectionToasts

\* C23: a click on the track button that handleTrackFlight rejects (an unknown
\* origin, destination or layover text, no origin or no destination, two airports
\* with the same code one after the other) leaves the route drawn, the flight
\* info, the view of the stops, the landmark markers and the last call of
\* filterLandmarksInCorridor as they were; and filterLandmarksInCorridor is only
\* ever passed a route of two airports or more in which no two that follow one
\* another have the same code.
C23_RejectedBeforeDrawing ==
    /\ [][TrackRejected'
          => UNCHANGED << drawn, flightInfo, stopsView, rendered, routeAirports, filtered >>]_vars
    /\ [](routeAirports # << >>
          => Len(routeAirports) >= 2 /\ NoConsecutiveDuplicate(routeAirports))
    /\ [](drawn # << >> => Len(drawn) >= 2 /\ NoConsecutiveDuplicate(drawn))

\* a route has been drawn and its landmarks rendered, and the next request, with a
\* layover at the airport of the origin, has been rejected
C23_Witness ==
    /\ notified = << Toast(<< "Invalid", "Route" >>, "error") >>
    /\ Len(layoverInputs) = 1
    /\ drawn # << >> /\ Len(drawn) = 2
    /\ routeAirports = drawn
    /\ rendered # << >>

----------------------------------------------------------------------------
(* The cache of loadLandmarks.                                             *)

\* call i has just resolved to the catch block's array
JustFailed(i) == loads[i].pc # "done" /\ loads'[i].pc = "done" /\ loads'[i].outcome = "failed"

\* C24: once a call of loadLandmarks has resolved with the parsed list, every
\* call made after it returns that same array and issues no fetch; and a call
\* whose fetch fails resolves to an empty list and leaves the cache as it was.
C24_CachesSuccessfulLoad ==
    /\ [](\A c \in DOMAIN loads : \A a \in loads[c].after :
            /\ ~loads[c].fetched
            /\ loads[c].pc = "done" /\ loads[c].result = loads[a].result)
    /\ [][\A i \in DOMAIN loads :
            JustFailed(i) => loads'[i].result.items = << >>
                             /\ landmarksCache' = landmarksCache]_vars

----------------------------------------------------------------------------
(* isWithinPathExtent and the cutoffs of getDistanceFromPath.              *)

\* the value getDistanceFromPath returned is a finite number
FiniteDistance == distance # NaN /\ distance < Infinity /\ distance > -Infinity

\* C25 as it is stated: for every route of two waypoints and every point,
\* getDistanceFromPath returns a finite distance exactly when isWithinPathExtent
\* returned true
C25_FiniteExactlyWhenWithin ==
    pc = "done" /\ Len(pathPoints) = 2 => (FiniteDistance <=> withinExtent)

\* C25: for every route of two waypoints and every point whose coordinates, like
\* those of the two waypoints, are numbers, getDistanceFromPath returns a finite
\* distance exactly when isWithinPathExtent returned true
C25_FiniteExactlyWhenWithinNumbers ==
    pc = "done" /\ Len(pathPoints) = 2 /\ ~AnyNaN({point, pathPoints[1], pathPoints[2]})
        => (FiniteDistance <=> withinExtent)

\* C25: a point off a leg between two different waypoints has been found within
\* the extent of the path and at a finite distance from it
C25_Witness ==
    /\ pc = "done" /\ Len(pathPoints) = 2
    /\ ~AnyNaN({point, pathPoints[1], pathPoints[2]})
    /\ pathPoints[1] # pathPoints[2]
    /\ withinExtent /\ FiniteDistance /\ distance > 0
----------------------------------------------------------------------------
(* The waypoints of a route as points.                                     *)

\* the waypoints of the path differ from one another
PairwiseDistinct(path) == \A i, j \in DOMAIN path : i # j => path[i] # path[j]

\* the point is a waypoint of the path
OnWaypoint == \E i \in DOMAIN pathPoints : pathPoints[i] = point

\* C26 as it is stated: for every route of at least 2 pairwise distinct waypoints
\* and every waypoint W of it, getDistanceFromPath(W, route) = 0
C26_WaypointAtDistanceZero ==
    pc = "done" /\ Len(pathPoints) >= 2 /\ PairwiseDistinct(pathPoints) /\ OnWaypoint
        => distance = 0
----------------------------------------------------------------------------
(* The info windows of the landmarks.                                      *)

\* C27 as it is stated: after any sequence of marker mouseover and mouseout, popup
\* mouseenter and mouseleave, domready registrations and firings of close timers,
\* at most one info window is open, and currentOpenInfoWindow is that window and
\* null when none is open
C27_OneWindowOpen ==
    pc = "hover" =>
        /\ Cardinality(openWindows) <= 1
        /\ \A w \in openWindows : currentOpenInfoWindow = w
        /\ openWindows = {} => currentOpenInfoWindow = 0
====
